---- MODULE Spec2Model ----
(***************************************************************************)
(* A model of the batching and flush engine of the WebGLPipeline class     *)
(* (src/src/renderer/webgl/WebGLPipeline.js).                              *)
(*                                                                         *)
(* One pipeline instance and the renderer (device) it shares with other    *)
(* pipelines are modelled.  Every public method of the pipeline is one     *)
(* action that runs the whole method; the calls the method makes on the    *)
(* device and on its hooks are recorded, in order, in call.log.            *)
(*                                                                         *)
(* The vertex buffer is modelled at the granularity of 32 bit slots, the   *)
(* granularity at which batchVert writes through its Float32 and Uint32    *)
(* views.  Positions and texture coordinates are integers; drawFillRect    *)
(* takes its arguments in half pixels so that Math.floor has work to do.   *)
(***************************************************************************)
EXTENDS Integers, Sequences, FiniteSets, TLC

VARIABLES pipeline, renderer, shaderObjs, call, history, object

vars == <<pipeline, renderer, shaderObjs, call, history, object>>

----------------------------------------------------------------------------
(* Bounds of the model *)

\* How many WebGLShader objects are created in one run (boot and
\* setShadersFromConfig create them).
MaxShaderObjs == 3

\* How far past vertexCapacity direct batchVert calls are followed.
MaxOver == 1

\* How many calls a remembered run (SpecRun) is made of.
MaxCalls == 4

\* How many render target textures the renderer creates in one run.
MaxTargets == 3

\* How many calls feed or flush the pipeline in a remembered run after its
\* boot (SpecFeed).
MaxFeeds == 5

----------------------------------------------------------------------------
(* Values *)

\* undefined (an omitted argument, a missing configuration key) and null;
\* NullList is null where the program holds a list.
Undefined == 0 - 1
Null == 0
NullList == << Null >>


\* gl.TRIANGLES, the default topology.
GL_TRIANGLES == 4

\* Float32Array.BYTES_PER_ELEMENT: the bytes of one slot of the buffer.
BytesPerSlot == 4

\* The number of 32 bit values batchVert writes for one vertex.
VertComponents == 7

\* The model follows the contents of the vertex buffer for the vertices of
\* the current batch only, and by name: a slot holds Held(k, c) when its
\* last write was component c (0 .. 6) of the vertex appended as number k
\* (0, 1, ..) of the batch; the values of that vertex are in the log entry
\* of the batchVert call that wrote it.  Stale stands for what a slot holds
\* otherwise: the zero it was allocated with, or what an earlier batch left.
Stale == 0 - 2
Held(k, c) == k * VertComponents + c

\* Textures known to the device; WhiteTexture is renderer.whiteTexture.
WhiteTexture == 1
Textures == {WhiteTexture, 2}

\* The textures the renderer creates for render targets are numbered from
\* TargetBase + 1 on.
TargetBase == 10

\* The projection matrix as the arguments it was made of: <<left, right,
\* bottom, top, near, far>> of an orthographic projection; Identity is the
\* matrix the constructor makes.
Identity == << >>
ortho(left, right, bottom, top, near, far) == <<left, right, bottom, top, near, far>>

\* The vertex buffer and program another pipeline of the renderer binds.
Other == [vertexBuffer |-> 9, program |-> 9]

Min(a, b) == IF a < b THEN a ELSE b
Max(a, b) == IF a > b THEN a ELSE b

\* The attribute lists of the configurations: <<component count, bytes per
\* component>> per attribute.
StdAttributes == << <<2, 4>>, <<2, 4>>, <<1, 4>>, <<1, 4>>, <<4, 1>> >>
WideAttributes == StdAttributes \o << <<1, 4>> >>

\* The configuration objects a pipeline is constructed with.  klass is the
\* class of the instance: the base class WebGLPipeline, or one of the
\* pipelines of pipelines/index.js that extend it.  A shader entry with the
\* empty attribute list is one without the key.
Configs ==
    { [ klass |-> "WebGLPipeline", vertexCapacity |-> Undefined, topology |-> Undefined,
        attributes |-> StdAttributes, shaders |-> << >> ],
      [ klass |-> "MultiPipeline", vertexCapacity |-> 1, topology |-> 1,
        attributes |-> StdAttributes,
        shaders |-> << [name |-> "a", attributes |-> << >>],
                       [name |-> "b", attributes |-> WideAttributes] >> ] }

\* A configuration two of whose shaders have one name.
NameConfigs ==
    Configs \cup
    { [ klass |-> "MultiPipeline", vertexCapacity |-> 1, topology |-> Undefined,
        attributes |-> StdAttributes,
        shaders |-> << [name |-> "b", attributes |-> << >>],
                       [name |-> "a", attributes |-> << >>],
                       [name |-> "a", attributes |-> WideAttributes] >> ] }

\* Configurations with the keys of the render target and of the uniforms:
\* a target of the renderer's size that is cleared when bound; a target of
\* twice the size that is not cleared, only the first of two shaders
\* declaring the projection; and no target.
TargetConfigs ==
    { [ klass |-> "MultiPipeline", vertexCapacity |-> 1, topology |-> Undefined,
        attributes |-> StdAttributes, shaders |-> << >>,
        uniforms |-> << "uProjectionMatrix", "uMainSampler" >>,
        target |-> 1, targetScale |-> Undefined, targetAutoClear |-> Undefined ],
      [ klass |-> "MultiPipeline", vertexCapacity |-> 1, topology |-> Undefined,
        attributes |-> StdAttributes,
        shaders |-> << [name |-> "a", attributes |-> << >>,
                        uniforms |-> << "uProjectionMatrix" >>],
                       [name |-> "b", attributes |-> << >>] >>,
        uniforms |-> << "uMainSampler" >>,
        target |-> 1, targetScale |-> 2, targetAutoClear |-> 0 ],
      [ klass |-> "MultiPipeline", vertexCapacity |-> 1, topology |-> Undefined,
        attributes |-> StdAttributes, shaders |-> << >>,
        uniforms |-> << "uProjectionMatrix" >>,
        target |-> Undefined, targetScale |-> 2, targetAutoClear |-> Undefined ] }

\* Pipelines with a render target whose batch holds fourteen vertices, the
\* target of the renderer's size and of twice its size.
PendingConfigs ==
    { [ klass |-> "MultiPipeline", vertexCapacity |-> 2, topology |-> Undefined,
        attributes |-> StdAttributes, shaders |-> << >>,
        uniforms |-> << "uProjectionMatrix", "uMainSampler" >>,
        target |-> 1, targetScale |-> Undefined, targetAutoClear |-> Undefined ],
      [ klass |-> "MultiPipeline", vertexCapacity |-> 2, topology |-> Undefined,
        attributes |-> StdAttributes, shaders |-> << >>,
        uniforms |-> << "uProjectionMatrix" >>,
        target |-> 1, targetScale |-> 2, targetAutoClear |-> 0 ] }

\* Two pipelines of one layout, the second with forceZero.
UnitConfigs ==
    { [ klass |-> "MultiPipeline", vertexCapacity |-> 2, topology |-> Undefined,
        attributes |-> StdAttributes, shaders |-> << >>, forceZero |-> Undefined ],
      [ klass |-> "MultiPipeline", vertexCapacity |-> 2, topology |-> Undefined,
        attributes |-> StdAttributes, shaders |-> << >>, forceZero |-> 1 ] }

\* The sizes of the renderer when the pipeline is constructed, and the
\* sizes resize is called with.
RendererSizes == { <<4, 3>>, <<0, 0>> }
ResizeInputs == << <<8, 6>>, <<4, 3>> >>

\* A layout of six 32 bit values, without the tint effect.
NarrowAttributes == << <<2, 4>>, <<2, 4>>, <<1, 4>>, <<4, 1>> >>

\* The configurations of the remembered runs: vertexCapacity: 2 with the
\* standard layout, and a layout of six values with vertexCapacity: 1.
RunConfigs ==
    { [ klass |-> "MultiPipeline", vertexCapacity |-> 2, topology |-> Undefined,
        attributes |-> StdAttributes, shaders |-> << >> ],
      [ klass |-> "MultiPipeline", vertexCapacity |-> 1, topology |-> Undefined,
        attributes |-> NarrowAttributes, shaders |-> << >> ] }

----------------------------------------------------------------------------
(* The world a method runs in: the pipeline, the renderer, the shader      *)
(* objects, the log of the calls made so far and whether a TypeError has   *)
(* been thrown (after which the rest of the method is skipped).            *)

World ==
    [p |-> pipeline, r |-> renderer, sh |-> shaderObjs, log |-> << >>, threw |-> FALSE,
     ret |-> Undefined]

E(ev, a, b, c, d) == [ev |-> ev, a |-> a, b |-> b, c |-> c, d |-> d, vals |-> << >>]

Ev(w, ev, a, b, c, d) == [w EXCEPT !.log = Append(@, E(ev, a, b, c, d))]

\* A TypeError thrown at the given line of WebGLPipeline.js.
Throw(w, line) == [Ev(w, "TypeError", line, 0, 0, 0) EXCEPT !.threw = TRUE]

B(b) == IF b THEN 1 ELSE 0

----------------------------------------------------------------------------
(* The renderer and the shader objects, as far as the pipeline uses them   *)

\* renderer.setVertexBuffer: makes the buffer the active vertex buffer.
\* The result (whether the binding changed) is the log entry's field b.
setVertexBuffer(w, buffer) ==
    LET changed == w.r.currentVertexBuffer # buffer
    IN  Ev([w EXCEPT !.r.currentVertexBuffer = buffer], "setVertexBuffer", buffer, B(changed), 0, 0)

\* renderer.resetTextures: every texture unit is unbound.
resetTextures(w) == Ev([w EXCEPT !.r.textures = << >>], "resetTextures", 0, 0, 0, 0)

UnitOf(textures, texture) == CHOOSE i \in 1..Len(textures) : textures[i] = texture

\* renderer.setTexture2D: the unit the texture is bound to, binding it to the
\* next free unit when it is bound to none.  Units count from 0.  For a
\* pipeline with forceZero the texture is bound to unit 0, whatever was
\* there.
rendererSetTexture2DUnit(r, texture) ==
    IF \E i \in 1..Len(r.textures) : r.textures[i] = texture
    THEN UnitOf(r.textures, texture) - 1
    ELSE Len(r.textures)

rendererSetTexture2D(w, texture) ==
    LET unit == rendererSetTexture2DUnit(w.r, texture)
        bound == IF unit = Len(w.r.textures) THEN Append(w.r.textures, texture) ELSE w.r.textures
        zero == IF w.r.textures = << >> THEN << texture >> ELSE [w.r.textures EXCEPT ![1] = texture]
    IN  IF w.p.forceZero
        THEN Ev([w EXCEPT !.r.textures = zero], "setTexture2D", texture, 0, 0, 0)
        ELSE Ev([w EXCEPT !.r.textures = bound], "setTexture2D", texture, unit, 0, 0)

\* renderer.setTextureSource(source): as setTexture2D, for the texture of a
\* texture source.
rendererSetTextureSource(w, texture) ==
    LET w1 == rendererSetTexture2D(w, texture)
    IN  [w1 EXCEPT !.log[Len(w1.log)].ev = "setTextureSource"]

\* renderer.createTextureFromSource(null, width, height, 0): a new texture
\* of the size; the log entry's field a is the texture.
createTextureFromSource(w, width, height) ==
    LET id == TargetBase + Len(w.r.targets) + 1
    IN  Ev([w EXCEPT !.r.targets = Append(@, [width |-> width, height |-> height, live |-> TRUE])],
           "createTexture", id, width, height, 0)

\* renderer.createFramebuffer(width, height, texture, false): a new
\* framebuffer drawing into the texture; the log entry's field a is it.
createFramebuffer(w, width, height, texture) ==
    LET id == Len(w.r.framebuffers) + 1
    IN  Ev([w EXCEPT !.r.framebuffers =
                         Append(@, [width |-> width, height |-> height,
                                    texture |-> texture, live |-> TRUE])],
           "createFramebuffer", id, width, height, texture)

\* renderer.deleteFramebuffer(framebuffer), renderer.deleteTexture(texture)
deleteFramebuffer(w, framebuffer) ==
    Ev(IF framebuffer \in DOMAIN w.r.framebuffers
       THEN [w EXCEPT !.r.framebuffers[framebuffer].live = FALSE] ELSE w,
       "deleteFramebuffer", framebuffer, 0, 0, 0)

deleteTexture(w, texture) ==
    Ev(IF texture - TargetBase \in DOMAIN w.r.targets
       THEN [w EXCEPT !.r.targets[texture - TargetBase].live = FALSE] ELSE w,
       "deleteTexture", texture, 0, 0, 0)

\* renderer.setFramebuffer(framebuffer): the framebuffer (null: the default
\* one) becomes the one drawn into.
setFramebuffer(w, framebuffer) ==
    Ev([w EXCEPT !.r.currentFramebuffer = framebuffer], "setFramebuffer", framebuffer, 0, 0, 0)

\* gl.clearColor(0, 0, 0, 0); gl.clear(gl.COLOR_BUFFER_BIT): the log entry
\* names the framebuffer cleared and the colour.
clear(w, r, g, b, a) ==
    [w EXCEPT !.log = Append(@, [E("clear", w.r.currentFramebuffer, 0, 0, 0)
                                    EXCEPT !.vals = <<r, g, b, a>>])]

\* The last log entry's field a: what the last create call returned.
LastMade(w) == w.log[Len(w.log)].a

\* WebGLShader.hasUniform(name)
hasUniform(w, id, name) == name \in w.sh[id].uniforms

\* WebGLShader.setMatrix4fv(name, transpose, matrix): the program is made
\* the device's current one and the uniform set; the log entry holds the
\* shader and the matrix.
shaderSetMatrix4fv(w, id, matrix) ==
    IF w.threw THEN w
    ELSE IF w.sh[id].destroyed THEN Throw(w, 0)
    ELSE [w EXCEPT !.r.currentProgram = w.sh[id].program,
                   !.log = Append(@, [E("setMatrix4fv", id, 0, 0, 0) EXCEPT !.vals = matrix])]

\* The unit the last renderer.setTexture2D of the world returned.
LastUnit(w) == w.log[Len(w.log)].b

RECURSIVE SumBytes(_), SumComponents(_)
\* WebGLShader: the vertex size is the bytes of all attributes.
SumBytes(attrs) ==
    IF attrs = << >> THEN 0 ELSE attrs[1][1] * attrs[1][2] + SumBytes(Tail(attrs))

\* WebGLShader: the component count is the number of 32 bit values of a vertex.
SumComponents(attrs) == SumBytes(attrs) \div BytesPerSlot

\* new WebGLShader(pipeline, name, vertShader, fragShader, attributes, uniforms):
\* the object is appended to the heap; its id is its index there, and its
\* program is a new program of the device, named by the same number.
newShader(name, attributes, uniforms, id) ==
    [ name |-> name, program |-> id, destroyed |-> FALSE,
      uniforms |-> {uniforms[i] : i \in 1..Len(uniforms)},
      vertexSize |-> SumBytes(attributes),
      vertexComponentCount |-> SumComponents(attributes) ]

\* WebGLShader.destroy
destroyShader(w, id) ==
    Ev([w EXCEPT !.sh[id].destroyed = TRUE, !.sh[id].program = Null], "destroyShader", id, 0, 0, 0)

\* WebGLShader.bind(setAttributes): makes the program the current program of
\* the device; a destroyed shader has no renderer to call and throws.
bindShader(w, id, setAttributes) ==
    IF w.threw THEN w
    ELSE IF w.sh[id].destroyed THEN Throw(w, 0)
    ELSE Ev([w EXCEPT !.r.currentProgram = w.sh[id].program],
            "bind", id, B(setAttributes), w.sh[id].program, 0)

----------------------------------------------------------------------------
(* WebGLPipeline                                                           *)

\* The values a method returns are kept in the world's field ret.
Ret(w, v) == IF w.threw THEN w ELSE [w EXCEPT !.ret = v]

\* GetFastValue(source, key, defaultValue) for a key holding a number.
GetFastValue(value, defaultValue) == IF value = Undefined THEN defaultValue ELSE value

\* config[key]: undefined for a key the configuration does not have; for a
\* key holding a list, the empty list.
ConfigValue(config, key) == IF key \in DOMAIN config THEN config[key] ELSE Undefined
ConfigList(config, key) == IF key \in DOMAIN config THEN config[key] ELSE << >>

\* shouldFlush with the amount left out of the sum.
shouldFlush_ignoresAmount(p, amount) == p.vertexCount >= p.vertexCapacity

\* shouldFlush with > for >=.
shouldFlush_strict(p, amount) ==
    LET amt == IF amount = Undefined THEN 0 ELSE amount
    IN  p.vertexCount + amt > p.vertexCapacity

\* shouldFlush(amount): is the batch full once amount vertices are added?
shouldFlush(p, amount) ==
    LET amt == IF amount = Undefined THEN 0 ELSE amount
    IN  p.vertexCount + amt >= p.vertexCapacity

\* flush with one of its steps changed: "keepsCount" leaves vertexCount as
\* it is, "onEmpty" also runs for an empty batch, "alwaysFull" uploads the
\* whole buffer whatever the count.
flushVariant(w, isPostFlush, variant) ==
    LET ipf == IF isPostFlush = Undefined THEN 0 ELSE isPostFlush
        vertexCount == w.p.vertexCount
    IN
    IF w.threw \/ ~(vertexCount > 0 \/ variant = "onEmpty") THEN w
    ELSE
      LET w1 == Ev(w, "onBeforeFlush", ipf, w.p.vertexCount, 0, 0)
          vertexSize == w.sh[w.p.currentShader].vertexSize
          w2 == IF vertexCount = w.p.vertexCapacity \/ variant = "alwaysFull"
                THEN Ev(w1, "bufferData", 0, w.p.byteLength, w.r.currentVertexBuffer, 0)
                ELSE Ev(w1, "bufferSubData", 0, Min(vertexCount * vertexSize, w.p.byteLength),
                        w.r.currentVertexBuffer, 0)
          w3 == Ev(w2, "drawArrays", w.p.topology, 0, vertexCount, w.p.currentShader)
          w4 == IF variant = "keepsCount" THEN w3 ELSE [w3 EXCEPT !.p.vertexCount = 0]
      IN  IF w.p.gl = Null THEN Throw(w1, 821)
          ELSE Ev(w4, "onAfterFlush", ipf, w4.p.vertexCount, 0, 0)

flush_keepsCount(w, isPostFlush) == flushVariant(w, isPostFlush, "keepsCount")
flush_onEmpty(w, isPostFlush) == flushVariant(w, isPostFlush, "onEmpty")
flush_alwaysFull(w, isPostFlush) == flushVariant(w, isPostFlush, "alwaysFull")

\* flush(isPostFlush): uploads the batch and draws it.
flush(w, isPostFlush) ==
    LET ipf == IF isPostFlush = Undefined THEN 0 ELSE isPostFlush
        vertexCount == w.p.vertexCount
    IN
    IF w.threw \/ ~(vertexCount > 0) THEN w
    ELSE
      LET w1 == Ev(w, "onBeforeFlush", ipf, w.p.vertexCount, 0, 0)
          vertexSize == w.sh[w.p.currentShader].vertexSize
          w2 == IF vertexCount = w.p.vertexCapacity
                THEN Ev(w1, "bufferData", 0, w.p.byteLength, w.r.currentVertexBuffer, 0)
                ELSE Ev(w1, "bufferSubData", 0, Min(vertexCount * vertexSize, w.p.byteLength),
                        w.r.currentVertexBuffer, 0)
          w3 == Ev(w2, "drawArrays", w.p.topology, 0, vertexCount, w.p.currentShader)
          w4 == [w3 EXCEPT !.p.vertexCount = 0]
      IN  IF w.p.gl = Null THEN Throw(w1, 821)
          ELSE Ev(w4, "onAfterFlush", ipf, w4.p.vertexCount, 0, 0)

\* vertexViewF32[i] = v, vertexViewU32[i] = v: a write past the end of a
\* typed array is dropped.
WriteSlot(slots, i, v) == IF i \in DOMAIN slots THEN [slots EXCEPT ![i] = v] ELSE slots

\* batchVert placing its records seven values apart, whatever the shader.
batchVert_packed(w, x, y, u, v, unit, tintEffect, tint) ==
    IF w.threw THEN w
    ELSE IF w.p.currentShader = Undefined THEN Throw(w, 1024)
    ELSE IF ~w.p.hasBooted THEN Throw(w, 1026)
    ELSE
      LET offset == w.p.vertexCount * VertComponents
          vals == <<x, y, u, v, unit, tintEffect, tint>>
          k == w.p.vertexCount
          written == [i \in DOMAIN w.p.slots |->
                        IF i >= offset /\ i < offset + VertComponents
                        THEN Held(k, i - offset) ELSE w.p.slots[i]]
      IN  [w EXCEPT !.p.slots = written, !.p.vertexCount = @ + 1,
                    !.log = Append(@, [E("batchVert", k, offset, 0, 0) EXCEPT !.vals = vals])]

\* batchVert refusing a vertex the batch has no room for.
batchVert_bounded(w, x, y, u, v, unit, tintEffect, tint) ==
    IF w.threw THEN w
    ELSE IF w.p.currentShader = Undefined THEN Throw(w, 1024)
    ELSE IF ~w.p.hasBooted THEN Throw(w, 1026)
    ELSE IF w.p.vertexCount >= w.p.vertexCapacity THEN w
    ELSE
      LET offset == w.p.vertexCount * w.sh[w.p.currentShader].vertexComponentCount
          vals == <<x, y, u, v, unit, tintEffect, tint>>
          k == w.p.vertexCount
          written == [i \in DOMAIN w.p.slots |->
                        IF i >= offset /\ i < offset + VertComponents
                        THEN Held(k, i - offset) ELSE w.p.slots[i]]
      IN  [w EXCEPT !.p.slots = written, !.p.vertexCount = @ + 1,
                    !.log = Append(@, [E("batchVert", k, offset, 0, 0) EXCEPT !.vals = vals])]

\* batchVert(x, y, u, v, unit, tintEffect, tint): writes one vertex at
\* vertexCount * vertexComponentCount and counts it.
batchVert(w, x, y, u, v, unit, tintEffect, tint) ==
    IF w.threw THEN w
    ELSE IF w.p.currentShader = Undefined THEN Throw(w, 1024)
    ELSE IF ~w.p.hasBooted THEN Throw(w, 1026)
    ELSE
      LET offset == w.p.vertexCount * w.sh[w.p.currentShader].vertexComponentCount
          vals == <<x, y, u, v, unit, tintEffect, tint>>
          k == w.p.vertexCount
          s1 == WriteSlot(w.p.slots, offset, Held(k, 0))
          s2 == WriteSlot(s1, offset + 1, Held(k, 1))
          s3 == WriteSlot(s2, offset + 2, Held(k, 2))
          s4 == WriteSlot(s3, offset + 3, Held(k, 3))
          s5 == WriteSlot(s4, offset + 4, Held(k, 4))
          s6 == WriteSlot(s5, offset + 5, Held(k, 5))
          written == WriteSlot(s6, offset + 6, Held(k, 6))
      IN  [w EXCEPT !.p.slots = written, !.p.vertexCount = @ + 1,
                    !.log = Append(@, [E("batchVert", w.p.vertexCount, offset, 0, 0)
                                         EXCEPT !.vals = vals])]

\* setTexture2D of the pipelines that extend WebGLPipeline: the texture (the
\* white texture when none is given) is bound on the renderer and the unit
\* it got is kept in currentUnit and returned.
subclassSetTexture2D(w, texture) ==
    LET w1 == rendererSetTexture2D(w, IF texture = Undefined THEN WhiteTexture ELSE texture)
    IN  Ret([w1 EXCEPT !.p.currentUnit = LastUnit(w1)], LastUnit(w1))

\* this.setTexture2D(texture), as batchQuad and batchTri call it on their
\* overflow path: WebGLPipeline defines no such method, so the call throws
\* on an instance of the base class, and on a destroyed pipeline, which has
\* no renderer.
setTexture2D(w, texture) ==
    IF w.threw THEN w
    ELSE IF w.p.klass = "WebGLPipeline" \/ w.p.renderer = Null THEN Throw(w, 1091)
    ELSE subclassSetTexture2D(w, texture)

\* batchQuad with its second triangle (TL, BR, TR) written as (BL, BR, TR).
batchQuad_otherDiagonal(w, q, texture, unit) ==
    LET unit0 == IF unit = Undefined THEN w.p.currentUnit ELSE unit
        hasFlushed == shouldFlush(w.p, 6)
        w1 == IF hasFlushed THEN setTexture2D(flush(w, Undefined), texture) ELSE w
        unit1 == IF hasFlushed /\ ~w1.threw THEN w1.ret ELSE unit0
        v1 == batchVert(w1, q.x0, q.y0, q.u0, q.v0, unit1, q.tintEffect, q.tintTL)
        v2 == batchVert(v1, q.x1, q.y1, q.u0, q.v1, unit1, q.tintEffect, q.tintBL)
        v3 == batchVert(v2, q.x2, q.y2, q.u1, q.v1, unit1, q.tintEffect, q.tintBR)
        v4 == batchVert(v3, q.x1, q.y1, q.u0, q.v1, unit1, q.tintEffect, q.tintBL)
        v5 == batchVert(v4, q.x2, q.y2, q.u1, q.v1, unit1, q.tintEffect, q.tintBR)
        v6 == batchVert(v5, q.x3, q.y3, q.u1, q.v0, unit1, q.tintEffect, q.tintTR)
    IN  IF w.threw THEN w ELSE Ret(v6, B(hasFlushed))

\* batchQuad answering whether its flush drew anything.
batchQuad_returnsDrawn(w, q, texture, unit) ==
    LET unit0 == IF unit = Undefined THEN w.p.currentUnit ELSE unit
        hasFlushed == shouldFlush(w.p, 6)
        w1 == IF hasFlushed THEN setTexture2D(flush(w, Undefined), texture) ELSE w
        unit1 == IF hasFlushed /\ ~w1.threw THEN w1.ret ELSE unit0
        v1 == batchVert(w1, q.x0, q.y0, q.u0, q.v0, unit1, q.tintEffect, q.tintTL)
        v2 == batchVert(v1, q.x1, q.y1, q.u0, q.v1, unit1, q.tintEffect, q.tintBL)
        v3 == batchVert(v2, q.x2, q.y2, q.u1, q.v1, unit1, q.tintEffect, q.tintBR)
        v4 == batchVert(v3, q.x0, q.y0, q.u0, q.v0, unit1, q.tintEffect, q.tintTL)
        v5 == batchVert(v4, q.x2, q.y2, q.u1, q.v1, unit1, q.tintEffect, q.tintBR)
        v6 == batchVert(v5, q.x3, q.y3, q.u1, q.v0, unit1, q.tintEffect, q.tintTR)
    IN  IF w.threw THEN w ELSE Ret(v6, B(hasFlushed /\ w.p.vertexCount > 0))

\* batchQuad writing with the unit it was called with after a flush too.
batchQuad_keepsUnit(w, q, texture, unit) ==
    LET unit0 == IF unit = Undefined THEN w.p.currentUnit ELSE unit
        hasFlushed == shouldFlush(w.p, 6)
        w1 == IF hasFlushed THEN setTexture2D(flush(w, Undefined), texture) ELSE w
        v1 == batchVert(w1, q.x0, q.y0, q.u0, q.v0, unit0, q.tintEffect, q.tintTL)
        v2 == batchVert(v1, q.x1, q.y1, q.u0, q.v1, unit0, q.tintEffect, q.tintBL)
        v3 == batchVert(v2, q.x2, q.y2, q.u1, q.v1, unit0, q.tintEffect, q.tintBR)
        v4 == batchVert(v3, q.x0, q.y0, q.u0, q.v0, unit0, q.tintEffect, q.tintTL)
        v5 == batchVert(v4, q.x2, q.y2, q.u1, q.v1, unit0, q.tintEffect, q.tintBR)
        v6 == batchVert(v5, q.x3, q.y3, q.u1, q.v0, unit0, q.tintEffect, q.tintTR)
    IN  IF w.threw THEN w ELSE Ret(v6, B(hasFlushed))

\* batchQuad(x0 .. tintEffect, texture, unit): two triangles, six vertices.
batchQuad(w, q, texture, unit) ==
    LET unit0 == IF unit = Undefined THEN w.p.currentUnit ELSE unit
        hasFlushed == shouldFlush(w.p, 6)
        w1 == IF hasFlushed THEN setTexture2D(flush(w, Undefined), texture) ELSE w
        unit1 == IF hasFlushed /\ ~w1.threw THEN w1.ret ELSE unit0
        v1 == batchVert(w1, q.x0, q.y0, q.u0, q.v0, unit1, q.tintEffect, q.tintTL)
        v2 == batchVert(v1, q.x1, q.y1, q.u0, q.v1, unit1, q.tintEffect, q.tintBL)
        v3 == batchVert(v2, q.x2, q.y2, q.u1, q.v1, unit1, q.tintEffect, q.tintBR)
        v4 == batchVert(v3, q.x0, q.y0, q.u0, q.v0, unit1, q.tintEffect, q.tintTL)
        v5 == batchVert(v4, q.x2, q.y2, q.u1, q.v1, unit1, q.tintEffect, q.tintBR)
        v6 == batchVert(v5, q.x3, q.y3, q.u1, q.v0, unit1, q.tintEffect, q.tintTR)
    IN  IF w.threw THEN w ELSE Ret(v6, B(hasFlushed))

\* batchTri with the tints of its second and third vertex exchanged.
batchTri_swapsTints(w, t, texture, unit) ==
    LET unit0 == IF unit = Undefined THEN w.p.currentUnit ELSE unit
        hasFlushed == shouldFlush(w.p, 3)
        w1 == IF hasFlushed THEN setTexture2D(flush(w, Undefined), texture) ELSE w
        unit1 == IF hasFlushed /\ ~w1.threw THEN w1.ret ELSE unit0
        v1 == batchVert(w1, t.x0, t.y0, t.u0, t.v0, unit1, t.tintEffect, t.tintTL)
        v2 == batchVert(v1, t.x1, t.y1, t.u0, t.v1, unit1, t.tintEffect, t.tintBL)
        v3 == batchVert(v2, t.x2, t.y2, t.u1, t.v1, unit1, t.tintEffect, t.tintTR)
    IN  IF w.threw THEN w ELSE Ret(v3, B(hasFlushed))

\* batchTri(x0 .. tintEffect, texture, unit): one triangle, three vertices.
batchTri(w, t, texture, unit) ==
    LET unit0 == IF unit = Undefined THEN w.p.currentUnit ELSE unit
        hasFlushed == shouldFlush(w.p, 3)
        w1 == IF hasFlushed THEN setTexture2D(flush(w, Undefined), texture) ELSE w
        unit1 == IF hasFlushed /\ ~w1.threw THEN w1.ret ELSE unit0
        v1 == batchVert(w1, t.x0, t.y0, t.u0, t.v0, unit1, t.tintEffect, t.tintTL)
        v2 == batchVert(v1, t.x1, t.y1, t.u0, t.v1, unit1, t.tintEffect, t.tintTR)
        v3 == batchVert(v2, t.x2, t.y2, t.u1, t.v1, unit1, t.tintEffect, t.tintBL)
    IN  IF w.threw THEN w ELSE Ret(v3, B(hasFlushed))

\* Math.floor of a number given in halves.
Floor2(h) == h \div 2

\* Utils.getTintAppendFloatAlphaAndSwap(rgb, a), a given in halves: the
\* alpha byte above the colour with its red and blue bytes swapped.  The 32
\* bits are kept as the signed integer that has them (an alpha byte of 128
\* or more sets the sign bit).
getTintAppendFloatAlphaAndSwap(rgb, a2) ==
    LET ur == (rgb \div 65536) % 256
        ug == (rgb \div 256) % 256
        ub == rgb % 256
        ua == ((a2 * 255) \div 2) % 256
        high == IF ua >= 128 THEN ua - 256 ELSE ua
    IN  high * 16777216 + ub * 65536 + ug * 256 + ur

\* drawFillRect that never flips the vertical texture coordinates.
drawFillRect_unflipped(w, x2, y2, width2, height2, color, alpha2, texture, flipUV) ==
    LET tex == IF texture = Undefined THEN WhiteTexture ELSE texture
        x == Floor2(x2)
        y == Floor2(y2)
        xw == Floor2(2 * x + width2)
        yh == Floor2(2 * y + height2)
        w1 == rendererSetTexture2D(w, tex)
        unit == LastUnit(w1)
        tint == getTintAppendFloatAlphaAndSwap(color, alpha2)
        q == [ x0 |-> x, y0 |-> y, x1 |-> x, y1 |-> yh, x2 |-> xw, y2 |-> yh, x3 |-> xw, y3 |-> y,
               u0 |-> 0, v0 |-> 0, u1 |-> 1, v1 |-> 1,
               tintTL |-> tint, tintTR |-> tint, tintBL |-> tint, tintBR |-> tint,
               tintEffect |-> 0 ]
    IN  IF w.threw THEN w
        ELSE IF w.p.renderer = Null THEN Throw(w, IF texture = Undefined THEN 1186 ELSE 1195)
        ELSE [batchQuad(w1, q, tex, unit) EXCEPT !.ret = Undefined]

\* drawFillRect(x, y, width, height, color, alpha, texture, flipUV); the
\* four numbers are given in half pixels.
drawFillRect(w, x2, y2, width2, height2, color, alpha2, texture, flipUV) ==
    LET tex == IF texture = Undefined THEN WhiteTexture ELSE texture
        flip == IF flipUV = Undefined THEN TRUE ELSE flipUV = 1
        x == Floor2(x2)
        y == Floor2(y2)
        xw == Floor2(2 * x + width2)
        yh == Floor2(2 * y + height2)
        w1 == rendererSetTexture2D(w, tex)
        unit == LastUnit(w1)
        tint == getTintAppendFloatAlphaAndSwap(color, alpha2)
        v0 == IF flip THEN 1 ELSE 0
        v1 == IF flip THEN 0 ELSE 1
        q == [ x0 |-> x, y0 |-> y, x1 |-> x, y1 |-> yh, x2 |-> xw, y2 |-> yh, x3 |-> xw, y3 |-> y,
               u0 |-> 0, v0 |-> v0, u1 |-> 1, v1 |-> v1,
               tintTL |-> tint, tintTR |-> tint, tintBL |-> tint, tintBR |-> tint,
               tintEffect |-> 0 ]
    IN  IF w.threw THEN w
        ELSE IF w.p.renderer = Null THEN Throw(w, IF texture = Undefined THEN 1186 ELSE 1195)
        ELSE [batchQuad(w1, q, tex, unit) EXCEPT !.ret = Undefined]

\* setShader with one of its steps changed: "assignsFirst" makes the shader
\* current before the pending batch is flushed, "always" switches without
\* looking at what is current.
setShaderVariant(w, shader, setAttributes, variant) ==
    LET same == shader = w.p.currentShader
        w0 == IF variant = "assignsFirst" THEN [w EXCEPT !.p.currentShader = shader] ELSE w
        w1 == flush(w0, Undefined)
        w2 == IF w1.threw THEN w1 ELSE setVertexBuffer(resetTextures(w1), w1.p.vertexBuffer)
        w3 == bindShader(w2, shader, setAttributes = 1)
        w4 == IF w3.threw THEN w3
              ELSE Ev([w3 EXCEPT !.p.currentShader = shader],
                      "currentShader", shader, w3.p.vertexCount, w.p.currentShader, 0)
    IN
    IF w.threw THEN w
    ELSE IF same /\ w.p.renderer = Null THEN Throw(w, 521)
    ELSE IF variant = "always" \/ ~same \/ w.r.currentProgram # w.sh[w.p.currentShader].program
         THEN (IF w1.threw THEN w1 ELSE IF w.p.renderer = Null THEN Throw(w1, 525) ELSE w4)
         ELSE w

setShader_assignsFirst(w, shader, setAttributes) ==
    setShaderVariant(w, shader, setAttributes, "assignsFirst")
setShader_always(w, shader, setAttributes) == setShaderVariant(w, shader, setAttributes, "always")

\* setShader(shader, setAttributes)
setShader(w, shader, setAttributes) ==
    LET same == shader = w.p.currentShader
        w1 == flush(w, Undefined)
        w2 == IF w1.threw THEN w1 ELSE setVertexBuffer(resetTextures(w1), w1.p.vertexBuffer)
        w3 == bindShader(w2, shader, setAttributes = 1)
        w4 == IF w3.threw THEN w3
              ELSE Ev([w3 EXCEPT !.p.currentShader = shader],
                      "currentShader", shader, w3.p.vertexCount, w3.p.currentShader, 0)
    IN
    IF w.threw THEN w
    ELSE IF same /\ w.p.renderer = Null THEN Throw(w, 521)
    ELSE IF ~same \/ w.r.currentProgram # w.sh[w.p.currentShader].program
         THEN (IF w1.threw THEN w1 ELSE IF w.p.renderer = Null THEN Throw(w1, 525) ELSE w4)
         ELSE w

RECURSIVE destroyShaders(_, _)
\* for (i = 0; i < shaders.length; i++) shaders[i].destroy();
destroyShaders(w, ids) ==
    IF ids = << >> THEN w ELSE destroyShaders(destroyShader(w, Head(ids)), Tail(ids))

\* The shaders setShadersFromConfig builds for a configuration: one named
\* 'default' when it lists none, else one per entry, in order, an entry
\* without attributes using the configuration's.
ShadersOf(config, firstId) ==
    IF Len(config.shaders) = 0
    THEN << newShader("default", config.attributes, ConfigList(config, "uniforms"), firstId) >>
    ELSE [i \in 1..Len(config.shaders) |->
            newShader(config.shaders[i].name,
                      IF config.shaders[i].attributes = << >>
                      THEN config.attributes ELSE config.shaders[i].attributes,
                      IF "uniforms" \in DOMAIN config.shaders[i]
                      THEN config.shaders[i].uniforms ELSE ConfigList(config, "uniforms"),
                      firstId + i - 1)]

\* setShadersFromConfig that makes the last shader it built the current one.
setShadersFromConfig_lastCurrent(w, config) ==
    LET w1 == destroyShaders(w, w.p.shaders)
        made == ShadersOf(config, Len(w.sh) + 1)
        ids == [i \in 1..Len(made) |-> Len(w.sh) + i]
        w2 == [w1 EXCEPT !.sh = @ \o made, !.p.shaders = ids]
    IN
    IF w.threw THEN w
    ELSE IF w.p.shaders = NullList THEN Throw(w, 580)
    ELSE Ev([w2 EXCEPT !.p.currentShader = ids[Len(ids)]],
            "currentShader", ids[Len(ids)], w2.p.vertexCount, w2.p.currentShader, 0)

\* setShadersFromConfig(config)
setShadersFromConfig(w, config) ==
    LET w1 == destroyShaders(w, w.p.shaders)
        made == ShadersOf(config, Len(w.sh) + 1)
        ids == [i \in 1..Len(made) |-> Len(w.sh) + i]
        w2 == [w1 EXCEPT !.sh = @ \o made, !.p.shaders = ids]
    IN
    IF w.threw THEN w
    ELSE IF w.p.shaders = NullList THEN Throw(w, 580)
    ELSE Ev([w2 EXCEPT !.p.currentShader = ids[1]],
            "currentShader", ids[1], w2.p.vertexCount, w2.p.currentShader, 0)

RECURSIVE MaxOf(_, _, _)
\* The largest value of a field (1: vertexSize, 2: vertexComponentCount)
\* over the shaders of the list.
MaxOf(sh, ids, field) ==
    IF ids = << >> THEN 0
    ELSE Max(IF field = 1 THEN sh[Head(ids)].vertexSize ELSE sh[Head(ids)].vertexComponentCount,
             MaxOf(sh, Tail(ids), field))

\* setGameObject that binds the texture and leaves currentUnit as it is.
setGameObject_forgets(w, gameObject, frame) ==
    LET source == IF frame = Undefined THEN gameObject ELSE frame
        w1 == rendererSetTextureSource(w, source)
    IN
    IF w.threw THEN w
    ELSE IF w.p.renderer = Null THEN Throw(w, 645)
    ELSE Ret(w1, LastUnit(w1))

\* setGameObject(gameObject, frame): a game object is given as the texture
\* of the source of its frame, a frame as the texture of its source.
setGameObject(w, gameObject, frame) ==
    LET source == IF frame = Undefined THEN gameObject ELSE frame
        w1 == rendererSetTextureSource(w, source)
    IN
    IF w.threw THEN w
    ELSE IF w.p.renderer = Null THEN Throw(w, 645)
    ELSE Ret([w1 EXCEPT !.p.currentUnit = LastUnit(w1)], LastUnit(w1))

RECURSIVE FirstNamed(_, _, _), LastNamed(_, _, _)
\* for (i = 0; i < shaders.length; i++) if (shaders[i].name === name) return
\* shaders[i]; the loop running off the end returns undefined.
FirstNamed(sh, ids, name) ==
    IF ids = << >> THEN Undefined
    ELSE IF sh[Head(ids)].name = name THEN Head(ids)
    ELSE FirstNamed(sh, Tail(ids), name)

\* The last shader of the list with the name.
LastNamed(sh, ids, name) ==
    IF ids = << >> THEN Undefined
    ELSE IF sh[ids[Len(ids)]].name = name THEN ids[Len(ids)]
    ELSE LastNamed(sh, SubSeq(ids, 1, Len(ids) - 1), name)

\* getShaderByName returning the last shader of the name.
getShaderByName_last(w, name) ==
    IF w.threw THEN w
    ELSE IF w.p.shaders = NullList THEN Throw(w, 551)
    ELSE Ret(w, LastNamed(w.sh, w.p.shaders, name))

\* getShaderByName(name)
getShaderByName(w, name) ==
    IF w.threw THEN w
    ELSE IF w.p.shaders = NullList THEN Throw(w, 551)
    ELSE Ret(w, FirstNamed(w.sh, w.p.shaders, name))

RECURSIVE pushProjection(_, _)
\* for (i = 0; i < shaders.length; i++) if (shader.hasUniform('uProjectionMatrix'))
\* this.setMatrix4fv('uProjectionMatrix', false, projectionMatrix.val, shaders[i]);
pushProjection(w, ids) ==
    IF ids = << >> \/ w.threw THEN w
    ELSE pushProjection(IF hasUniform(w, Head(ids), "uProjectionMatrix")
                        THEN shaderSetMatrix4fv(w, Head(ids), w.p.projectionMatrix)
                        ELSE w,
                        Tail(ids))

\* resize with one of its steps changed: "scaled" makes the projection of
\* the scaled size, "keepsTarget" leaves the render target as it is.
resizeVariant(w, width, height, variant) ==
    LET hasTarget == w.p.targetTexture # Null
        sw == IF hasTarget THEN width * w.p.targetScale ELSE width
        sh == IF hasTarget THEN height * w.p.targetScale ELSE height
        w1 == [w EXCEPT !.p.width = width, !.p.height = height,
                        !.p.projectionMatrix =
                            IF variant = "scaled" THEN ortho(0, sw, sh, 0, 0 - 1000, 1000)
                            ELSE ortho(0, width, height, 0, 0 - 1000, 1000)]
        d1 == deleteFramebuffer(w1, w.p.targetFramebuffer)
        d2 == deleteTexture(d1, w.p.targetTexture)
        t1 == createTextureFromSource(d2, sw, sh)
        t2 == createFramebuffer(t1, sw, sh, LastMade(t1))
        w2 == IF hasTarget /\ variant # "keepsTarget"
              THEN [t2 EXCEPT !.p.targetTexture = LastMade(t1),
                              !.p.targetFramebuffer = LastMade(t2)]
              ELSE w1
        w3 == pushProjection(w2, w2.p.shaders)
    IN
    IF w.threw THEN w
    ELSE IF hasTarget /\ w.p.renderer = Null THEN Throw(w1, 703)
    ELSE IF w.p.shaders = NullList THEN Throw(w2, 712)
    ELSE IF w3.threw THEN w3
    ELSE Ev(w3, "onResize", sw, sh, 0, 0)

resize_scaled(w, width, height) == resizeVariant(w, width, height, "scaled")
resize_keepsTarget(w, width, height) == resizeVariant(w, width, height, "keepsTarget")

\* resize(width, height)
resize(w, width, height) ==
    LET hasTarget == w.p.targetTexture # Null
        sw == IF hasTarget THEN width * w.p.targetScale ELSE width
        sh == IF hasTarget THEN height * w.p.targetScale ELSE height
        w1 == [w EXCEPT !.p.width = width, !.p.height = height,
                        !.p.projectionMatrix = ortho(0, width, height, 0, 0 - 1000, 1000)]
        d1 == deleteFramebuffer(w1, w.p.targetFramebuffer)
        d2 == deleteTexture(d1, w.p.targetTexture)
        t1 == createTextureFromSource(d2, sw, sh)
        t2 == createFramebuffer(t1, sw, sh, LastMade(t1))
        w2 == IF hasTarget
              THEN [t2 EXCEPT !.p.targetTexture = LastMade(t1),
                              !.p.targetFramebuffer = LastMade(t2)]
              ELSE w1
        w3 == pushProjection(w2, w2.p.shaders)
    IN
    IF w.threw THEN w
    ELSE IF hasTarget /\ w.p.renderer = Null THEN Throw(w1, 703)
    ELSE IF w.p.shaders = NullList THEN Throw(w2, 712)
    ELSE IF w3.threw THEN w3
    ELSE Ev(w3, "onResize", sw, sh, 0, 0)

\* postBind that clears the target whatever targetAutoClear says.
postBind_alwaysClears(w) ==
    LET hasTarget == w.p.targetTexture # Null
        w1 == setFramebuffer(w, w.p.targetFramebuffer)
        w2 == clear(w1, 0, 0, 0, 0)
        w3 == IF hasTarget THEN w2 ELSE w
    IN
    IF w.threw THEN w
    ELSE IF hasTarget /\ w.p.renderer = Null THEN Throw(w, 764)
    ELSE IF hasTarget /\ w.p.gl = Null THEN Throw(w1, 770)
    ELSE Ev(w3, "onPostBind", 0, 0, 0, 0)

\* postBind(gameObject)
postBind(w) ==
    LET hasTarget == w.p.targetTexture # Null
        w1 == setFramebuffer(w, w.p.targetFramebuffer)
        w2 == IF w.p.targetAutoClear THEN clear(w1, 0, 0, 0, 0) ELSE w1
        w3 == IF hasTarget THEN w2 ELSE w
    IN
    IF w.threw THEN w
    ELSE IF hasTarget /\ w.p.renderer = Null THEN Throw(w, 764)
    ELSE IF hasTarget /\ w.p.targetAutoClear /\ w.p.gl = Null THEN Throw(w1, 770)
    ELSE Ev(w3, "onPostBind", 0, 0, 0, 0)

\* unbind()
unbind(w) ==
    IF w.threw THEN w
    ELSE IF w.p.targetTexture = Null THEN w
    ELSE IF w.p.renderer = Null THEN Throw(w, 792)
    ELSE setFramebuffer(w, Null)

\* bind that has the shader set its attributes whatever the buffer was.
bind_alwaysSets(w) ==
    LET w1 == setVertexBuffer(w, w.p.vertexBuffer)
    IN
    IF w.threw THEN w
    ELSE IF w.p.renderer = Null THEN Throw(w, 740)
    ELSE IF w.p.currentShader = Undefined THEN Throw(w1, 742)
    ELSE bindShader(w1, w.p.currentShader, TRUE)

\* bind(): the pipeline's vertex buffer becomes the device's, then the
\* current shader is bound, setting its attributes when the buffer changed.
bind(w) ==
    LET w1 == setVertexBuffer(w, w.p.vertexBuffer)
        wasBound == w1.log[Len(w1.log)].b = 1
    IN
    IF w.threw THEN w
    ELSE IF w.p.renderer = Null THEN Throw(w, 740)
    ELSE IF w.p.currentShader = Undefined THEN Throw(w1, 742)
    ELSE bindShader(w1, w.p.currentShader, wasBound)

\* postFlush with its steps in one of three other orders: "hookFirst" calls
\* onPostFlush before the flush, "keepsTarget" leaves the framebuffer bound,
\* "flushFirst" flushes the batch before the framebuffer is switched.
postFlushVariant(w, variant) ==
    LET w0 == IF variant = "flushFirst" THEN flush(w, 0) ELSE w
        w1 == IF variant = "keepsTarget" THEN w ELSE setFramebuffer(w0, Null)
        w2 == setVertexBuffer(resetTextures(w1), w.p.vertexBuffer)
        wasBound == w2.log[Len(w2.log)].b = 1
        w3 == bindShader(w2, w.p.currentShader, wasBound)
        texture == w.p.targetTexture
        width == w.r.targets[texture - TargetBase].width
        height == w.r.targets[texture - TargetBase].height
        w4 == drawFillRect(w3, 0, 0, 2 * width, 2 * height, 0, 1, texture, 1)
        w5 == IF variant = "hookFirst"
              THEN flush(Ev(w4, "onPostFlush", 0, 0, 0, 0), 1)
              ELSE Ev(flush(w4, 1), "onPostFlush", 0, 0, 0, 0)
    IN
    IF w.threw THEN w
    ELSE IF w.p.renderer = Null THEN Throw(w, 850)
    ELSE IF w.p.currentShader = Undefined THEN Throw(w2, 855)
    ELSE IF w3.threw THEN w3
    ELSE IF texture = Null THEN Throw(w3, 858)
    ELSE IF w4.threw THEN w4
    ELSE w5

postFlush_hookFirst(w) == postFlushVariant(w, "hookFirst")
postFlush_keepsTarget(w) == postFlushVariant(w, "keepsTarget")
postFlush_flushFirst(w) == postFlushVariant(w, "flushFirst")

\* postFlush(gameObject): the target texture is drawn, as one rectangle of
\* its size, into the default framebuffer.
postFlush(w) ==
    LET w1 == setFramebuffer(w, Null)
        w2 == setVertexBuffer(resetTextures(w1), w.p.vertexBuffer)
        wasBound == w2.log[Len(w2.log)].b = 1
        w3 == bindShader(w2, w.p.currentShader, wasBound)
        texture == w.p.targetTexture
        width == w.r.targets[texture - TargetBase].width
        height == w.r.targets[texture - TargetBase].height
        w4 == drawFillRect(w3, 0, 0, 2 * width, 2 * height, 0, 1, texture, 1)
        w5 == flush(w4, 1)
    IN
    IF w.threw THEN w
    ELSE IF w.p.renderer = Null THEN Throw(w, 850)
    ELSE IF w.p.currentShader = Undefined THEN Throw(w2, 855)
    ELSE IF w3.threw THEN w3
    ELSE IF texture = Null THEN Throw(w3, 858)
    ELSE IF w4.threw THEN w4
    ELSE IF w5.threw THEN w5
    ELSE Ev(w5, "onPostFlush", 0, 0, 0, 0)

\* boot()
boot(w) ==
    LET target == GetFastValue(ConfigValue(w.p.config, "target"), 0) = 1
        width == w.r.width * w.p.targetScale
        height == w.r.height * w.p.targetScale
        t1 == createTextureFromSource(w, width, height)
        t2 == createFramebuffer(t1, width, height, LastMade(t1))
        w0 == IF target /\ width > 0 /\ height > 0
              THEN [t2 EXCEPT !.p.targetTexture = LastMade(t1),
                              !.p.targetFramebuffer = LastMade(t2)]
              ELSE w
        w1 == setShadersFromConfig(w0, w.p.config)
        vertexSize == MaxOf(w1.sh, w1.p.shaders, 1)
        vertexComponentCount == MaxOf(w1.sh, w1.p.shaders, 2)
        capacity == GetFastValue(w.p.config.vertexCapacity, w.r.batchSize) * vertexComponentCount
        byteLength == capacity * vertexSize
        buffer == w.r.buffers + 1
        w2 == Ev([w1 EXCEPT !.p.vertexCapacity = capacity,
                            !.p.vertexData = 1,
                            !.p.byteLength = byteLength,
                            !.p.slots = [i \in 0..(byteLength \div BytesPerSlot) - 1 |-> 0],
                            !.p.vertexBuffer = buffer,
                            !.r.buffers = buffer],
                 "createVertexBuffer", buffer, byteLength, 0, 0)
        w3 == bindShader(setVertexBuffer(w2, buffer), w2.p.currentShader, FALSE)
    IN
    IF w.threw THEN w
    ELSE IF w.p.renderer = Null THEN Throw(w, 371)
    ELSE [w3 EXCEPT !.p.hasBooted = TRUE]

\* destroy()
destroy(w) ==
    LET w1 == destroyShaders(w, w.p.shaders)
        w2 == Ev(w1, "deleteBuffer", w.p.vertexBuffer, 0, 0, 0)
    IN
    IF w.threw THEN w
    ELSE IF w.p.shaders = NullList THEN Throw(w, 1753)
    ELSE [w2 EXCEPT !.p.game = Null, !.p.renderer = Null, !.p.gl = Null, !.p.view = Null,
                    !.p.shaders = NullList, !.p.vertexData = Null, !.p.vertexBuffer = Null]

----------------------------------------------------------------------------
(* The arguments the methods are called with                               *)

\* batchQuad: top-left, bottom-left, bottom-right, top-right.
QuadInputs ==
    << [ x0 |-> 10, y0 |-> 11, x1 |-> 12, y1 |-> 13, x2 |-> 14, y2 |-> 15, x3 |-> 16, y3 |-> 17,
         u0 |-> 20, v0 |-> 21, u1 |-> 22, v1 |-> 23,
         tintTL |-> 30, tintTR |-> 31, tintBL |-> 32, tintBR |-> 33, tintEffect |-> 1 ] >>

TriInputs ==
    << [ x0 |-> 60, y0 |-> 61, x1 |-> 62, y1 |-> 63, x2 |-> 64, y2 |-> 65,
         u0 |-> 70, v0 |-> 71, u1 |-> 72, v1 |-> 73,
         tintTL |-> 80, tintTR |-> 81, tintBL |-> 82, tintEffect |-> 0 ] >>

\* batchVert: <<x, y, u, v, unit, tintEffect, tint>>
VertInputs == << <<90, 91, 92, 93, 0, 1, 94>> >>

\* drawFillRect: x, y, width and height in half pixels, color, alpha in halves.
RectInputs ==
    << [ x |-> 1, y |-> 0 - 3, width |-> 1, height |-> 3, color |-> 65536, alpha |-> 1 ],
       [ x |-> 20, y |-> 40, width |-> 60, height |-> 80, color |-> 66051, alpha |-> 2 ] >>

\* getShaderByName: the names asked for.
ShaderNames == << "a", "b", "default", "z" >>

\* setGameObject: the game object's texture, and the frames passed.
GameObjects == {3}
Frames == {Undefined, 2}

TextureArgs == {Undefined, 2}
Units == {Undefined, 1}
Flags == {Undefined, 0, 1}
Amounts == {Undefined, 0, 3, 6}

----------------------------------------------------------------------------
(* The state machine                                                       *)

\* The Pipeline component of a Game Object (Pipeline.js) and what it reaches
\* through this.scene.sys.renderer: whether the renderer has a pipeline set
\* (a Canvas renderer has none) and the names of the pipelines in it.  The
\* instance of a pipeline is named by its place in names.  pipelineData is
\* an object, given by its entries, or undefined.
PipelineSet(names) == [present |-> TRUE, names |-> names]
NoPipelineSet == [present |-> FALSE, names |-> << >>]

DataObject(entries) == [defined |-> TRUE, entries |-> entries]
DataUndefined == [defined |-> FALSE, entries |-> {}]

NewGameObject(pipelines) ==
    [ defaultPipeline |-> Null, pipeline |-> Null, pipelineData |-> DataObject({}),
      pipelines |-> pipelines ]

\* The runs that follow one pipeline have no Game Object in them.
NoGameObject == NewGameObject(NoPipelineSet)

\* PIPELINE_CONST.MULTI_PIPELINE
MULTI_PIPELINE == "MultiPipeline"

\* PipelineManager.get(pipeline): the instance of the name, or undefined.
pipelinesGet(pipelines, name) ==
    IF \E i \in 1..Len(pipelines.names) : pipelines.names[i] = name
    THEN CHOOSE i \in 1..Len(pipelines.names) : pipelines.names[i] = name
    ELSE Undefined

\* What a method of the component leaves: the Game Object, the value
\* returned, whether it threw.
Done(g, ret) == [g |-> g, ret |-> ret, threw |-> FALSE]
Thrown(g) == [g |-> g, ret |-> Undefined, threw |-> TRUE]

\* initPipeline that records the instance as pipeline only.
initPipeline_noDefault(g, key) ==
    LET name == IF key = "" THEN MULTI_PIPELINE ELSE key
        instance == pipelinesGet(g.pipelines, name)
    IN  IF g.pipelines.present /\ instance # Undefined
        THEN Done([g EXCEPT !.pipeline = instance], 1)
        ELSE Done(g, 0)

\* initPipeline(pipeline), the name being key; the omitted name is "".
initPipeline(g, key) ==
    LET name == IF key = "" THEN MULTI_PIPELINE ELSE key
        instance == pipelinesGet(g.pipelines, name)
    IN  IF g.pipelines.present /\ instance # Undefined
        THEN Done([g EXCEPT !.defaultPipeline = instance, !.pipeline = instance], 1)
        ELSE Done(g, 0)

\* setPipeline that keeps the pipelineData it has when none is passed.
setPipeline_keepsData(g, key, pipelineData) ==
    LET instance == pipelinesGet(g.pipelines, key)
    IN  IF g.pipelines.present /\ instance # Undefined
        THEN Done([g EXCEPT !.pipeline = instance,
                            !.pipelineData = IF pipelineData.defined THEN pipelineData ELSE @],
                  Undefined)
        ELSE Done(g, Undefined)

\* setPipeline that makes the instance the default pipeline too.
setPipeline_setsDefault(g, key, pipelineData) ==
    LET instance == pipelinesGet(g.pipelines, key)
    IN  IF g.pipelines.present /\ instance # Undefined
        THEN Done([g EXCEPT !.pipeline = instance, !.defaultPipeline = instance,
                            !.pipelineData = pipelineData], Undefined)
        ELSE Done(g, Undefined)

\* setPipeline(pipeline, pipelineData), the name being key; it returns the
\* Game Object.
setPipeline(g, key, pipelineData) ==
    LET instance == pipelinesGet(g.pipelines, key)
    IN  IF g.pipelines.present /\ instance # Undefined
        THEN Done([g EXCEPT !.pipeline = instance, !.pipelineData = pipelineData], Undefined)
        ELSE Done(g, Undefined)

\* setPipelineData(key, value): writing a property of undefined throws.
setPipelineData(g, key, value) ==
    IF ~g.pipelineData.defined THEN Thrown(g)
    ELSE Done([g EXCEPT !.pipelineData.entries =
                   {e \in @ : e[1] # key} \cup {<<key, value>>}], Undefined)

\* resetPipeline()
resetPipeline(g) ==
    Done([g EXCEPT !.pipeline = g.defaultPipeline], B(g.defaultPipeline # Null))

\* getPipelineName(): the place of the name in the pipeline set stands for
\* the name; reading the name of null throws.
getPipelineName(g) ==
    IF g.pipeline = Null THEN Thrown(g) ELSE Done(g, g.pipeline)

\* The renderer of a game whose canvas has the size: nothing is bound, no
\* buffer, render target texture or framebuffer has been created.  A
\* texture of targets and a framebuffer of framebuffers is named by
\* TargetBase plus its index and by its index.
NewRenderer(width, height) ==
    [ currentProgram |-> Null, currentVertexBuffer |-> Null, textures |-> << >>,
      batchSize |-> 1, buffers |-> 0,
      width |-> width, height |-> height, currentFramebuffer |-> Null,
      targets |-> << >>, framebuffers |-> << >> ]

\* new WebGLPipeline(config)
NewPipeline(config) ==
    [ klass |-> config.klass, config |-> config,
      game |-> 1, renderer |-> 1, gl |-> 1, view |-> 1,
      vertexCount |-> 0, vertexCapacity |-> 0,
      vertexData |-> Undefined, byteLength |-> 0, slots |-> << >>,
      vertexBuffer |-> Undefined,
      topology |-> GetFastValue(config.topology, GL_TRIANGLES),
      width |-> 0, height |-> 0,
      currentUnit |-> 0,
      forceZero |-> GetFastValue(ConfigValue(config, "forceZero"), 0) = 1,
      hasBooted |-> FALSE,
      targetFramebuffer |-> Null, targetTexture |-> Null,
      targetScale |-> GetFastValue(ConfigValue(config, "targetScale"), 1),
      targetAutoClear |-> GetFastValue(ConfigValue(config, "targetAutoClear"), 1) = 1,
      shaders |-> << >>, currentShader |-> Undefined,
      projectionMatrix |-> Identity ]

NoCall == [op |-> "new", args |-> << >>, ret |-> Undefined, threw |-> FALSE, log |-> << >>]

Init ==
    /\ \E config \in Configs : pipeline = NewPipeline(config)
    /\ renderer = NewRenderer(4, 3)
    /\ shaderObjs = << >>
    /\ call = NoCall
    /\ history = << >>
    /\ object = NoGameObject

\* With no vertex in the batch, nothing in the buffer is followed.
Untrack(p) ==
    IF p.vertexCount = 0 THEN [p EXCEPT !.slots = [i \in DOMAIN p.slots |-> Stale]] ELSE p

\* The method op, called with args, ran from the current state to world w,
\* which is the next state.
Run(op, args, w) ==
    \E done \in {w} :
        /\ pipeline' = Untrack(done.p)
        /\ renderer' = done.r
        /\ shaderObjs' = done.sh
        /\ call' = [op |-> op, args |-> args, ret |-> done.ret, threw |-> done.threw,
                    log |-> done.log]
        /\ UNCHANGED object

\* A call of which only the last one is remembered.
Commit(op, args, w) ==
    /\ Run(op, args, w)
    /\ UNCHANGED history

\* A call that is also remembered in the history of the calls made.
Record(op, args, w) ==
    /\ Run(op, args, w)
    /\ history' = Append(history, call')

Boot ==
    /\ Len(shaderObjs) + Len(ShadersOf(pipeline.config, 1)) <= MaxShaderObjs
    /\ Commit("boot", << >>, boot(World))

SetShadersFromConfig ==
    \E config \in Configs :
        /\ Len(shaderObjs) + Len(ShadersOf(config, 1)) <= MaxShaderObjs
        /\ Commit("setShadersFromConfig", << >>, setShadersFromConfig(World, config))

SetShader ==
    \E shader \in 1..Len(shaderObjs), setAttributes \in {Undefined, 1} :
        Commit("setShader", <<shader, setAttributes>>, setShader(World, shader, setAttributes))

ShouldFlush ==
    \E amount \in Amounts :
        /\ Commit("shouldFlush", <<amount>>, Ret(World, B(shouldFlush(pipeline, amount))))

Flush ==
    \E isPostFlush \in Flags :
        /\ Commit("flush", <<isPostFlush>>, flush(World, isPostFlush))

BatchVert ==
    \E i \in 1..Len(VertInputs) :
        /\ pipeline.vertexCount < pipeline.vertexCapacity + MaxOver
        /\ LET v == VertInputs[i]
           IN  Commit("batchVert", <<i>>, batchVert(World, v[1], v[2], v[3], v[4], v[5], v[6], v[7]))

BatchQuad ==
    \E i \in 1..Len(QuadInputs), texture \in TextureArgs, unit \in Units :
        /\ Commit("batchQuad", <<i, texture, unit>>, batchQuad(World, QuadInputs[i], texture, unit))

BatchTri ==
    \E i \in 1..Len(TriInputs), texture \in TextureArgs, unit \in Units :
        /\ Commit("batchTri", <<i, texture, unit>>, batchTri(World, TriInputs[i], texture, unit))

DrawFillRect ==
    \E i \in 1..Len(RectInputs), texture \in TextureArgs, flipUV \in Flags :
        LET a == RectInputs[i]
        IN  /\ Commit("drawFillRect", <<i, texture, flipUV>>,
                      drawFillRect(World, a.x, a.y, a.width, a.height, a.color, a.alpha, texture, flipUV))

Bind ==
    /\ Commit("bind", << >>, bind(World))

GetShaderByName ==
    \E i \in 1..Len(ShaderNames) :
        /\ Commit("getShaderByName", <<i>>, getShaderByName(World, ShaderNames[i]))

Resize ==
    \E i \in 1..Len(ResizeInputs) :
        /\ Len(renderer.targets) < MaxTargets
        /\ Commit("resize", <<i>>, resize(World, ResizeInputs[i][1], ResizeInputs[i][2]))

PostBind ==
    /\ Commit("postBind", << >>, postBind(World))

Unbind ==
    /\ Commit("unbind", << >>, unbind(World))

PostFlush ==
    /\ Commit("postFlush", << >>, postFlush(World))

SetGameObject ==
    \E gameObject \in GameObjects, frame \in Frames :
        /\ Commit("setGameObject", <<gameObject, frame>>, setGameObject(World, gameObject, frame))

\* A call of a method of the Game Object's component.
Call(op, args, done) ==
    /\ object' = done.g
    /\ call' = [op |-> op, args |-> args, ret |-> done.ret, threw |-> done.threw,
                log |-> << >>]
    /\ UNCHANGED <<pipeline, renderer, shaderObjs, history>>

\* The names passed for a pipeline: omitted (only initPipeline gives the
\* omitted name a meaning), two the pipeline set may hold, one it never holds.
PipelineArgs == <<"", "MultiPipeline", "SinglePipeline", "NoSuchPipeline">>

\* The pipelineData passed to setPipeline: omitted, or an object.
DataArgs == <<DataUndefined, DataObject({}), DataObject({<<1, 1>>})>>

DataKeys == {1, 2}
DataValues == {1, 2}

InitPipeline ==
    \E i \in 1..Len(PipelineArgs) :
        /\ Call("initPipeline", <<i>>, initPipeline(object, PipelineArgs[i]))

SetPipeline ==
    \E i \in 1..Len(PipelineArgs), d \in 1..Len(DataArgs) :
        /\ Call("setPipeline", <<i, d>>, setPipeline(object, PipelineArgs[i], DataArgs[d]))

SetPipelineData ==
    \E key \in DataKeys, value \in DataValues :
        /\ Call("setPipelineData", <<key, value>>, setPipelineData(object, key, value))

ResetPipeline ==
    /\ Call("resetPipeline", << >>, resetPipeline(object))

GetPipelineName ==
    /\ Call("getPipelineName", << >>, getPipelineName(object))

Destroy ==
    /\ Commit("destroy", << >>, destroy(World))

\* Another pipeline of the same renderer is bound: its vertex buffer and
\* its program become the device's.
OtherPipelineBind ==
    /\ renderer' = [renderer EXCEPT !.currentVertexBuffer = Other.vertexBuffer,
                                    !.currentProgram = Other.program]
    /\ call' = [NoCall EXCEPT !.op = "otherBind"]
    /\ UNCHANGED <<pipeline, shaderObjs, history, object>>

Next ==
    \/ Boot
    \/ SetShadersFromConfig
    \/ SetShader
    \/ ShouldFlush
    \/ Flush
    \/ BatchVert
    \/ BatchQuad
    \/ BatchTri
    \/ DrawFillRect
    \/ Bind
    \/ GetShaderByName
    \/ Resize
    \/ PostBind
    \/ Unbind
    \/ PostFlush
    \/ SetGameObject
    \/ InitPipeline
    \/ SetPipeline
    \/ SetPipelineData
    \/ ResetPipeline
    \/ GetPipelineName
    \/ Destroy
    \/ OtherPipelineBind

Spec == Init /\ [][Next]_vars

\* The pipeline fed through batchQuad, batchTri and drawFillRect alone.
QuadNext ==
    \/ Boot
    \/ Flush
    \/ BatchQuad
    \/ BatchTri
    \/ DrawFillRect

SpecQuad == Init /\ [][QuadNext]_vars

\* The pipeline fed, also vertex by vertex, and flushed, its shader switched.
BatchNext ==
    \/ Boot
    \/ SetShader
    \/ ShouldFlush
    \/ Flush
    \/ BatchVert
    \/ BatchQuad
    \/ BatchTri

SpecBatch == Init /\ [][BatchNext]_vars

\* The pipeline's shaders changed while it is fed and flushed, on a device
\* that other pipelines use.
ShaderNext ==
    \/ Boot
    \/ SetShadersFromConfig
    \/ SetShader
    \/ Flush
    \/ BatchTri
    \/ OtherPipelineBind

SpecShader == Init /\ [][ShaderNext]_vars

\* A pipeline of NameConfigs whose shaders are looked up by name while they
\* are switched and the pipeline is fed.
NamesInit ==
    /\ \E config \in NameConfigs : pipeline = NewPipeline(config)
    /\ renderer = NewRenderer(4, 3)
    /\ shaderObjs = << >>
    /\ call = NoCall
    /\ history = << >>
    /\ object = NoGameObject

NamesNext ==
    \/ Boot
    \/ SetShader
    \/ GetShaderByName
    \/ BatchTri

SpecNames == NamesInit /\ [][NamesNext]_vars

\* A pipeline of TargetConfigs on a renderer of one of RendererSizes: it is
\* booted, resized, bound to its target and unbound, and fed.
TargetInit ==
    /\ \E config \in TargetConfigs : pipeline = NewPipeline(config)
    /\ \E size \in RendererSizes : renderer = NewRenderer(size[1], size[2])
    /\ shaderObjs = << >>
    /\ call = NoCall
    /\ history = << >>
    /\ object = NoGameObject

TargetNext ==
    \/ Boot
    \/ Resize
    \/ PostBind
    \/ Unbind
    \/ BatchTri

SpecTarget == TargetInit /\ [][TargetNext]_vars

\* The same pipelines booted, resized, bound to their target, fed, and the
\* target drawn by postFlush.
PostFlushNext ==
    \/ Boot
    \/ Resize
    \/ PostBind
    \/ BatchVert
    \/ PostFlush

SpecPostFlush == TargetInit /\ [][PostFlushNext]_vars

\* A pipeline of PendingConfigs booted, bound to its target, fed vertex by
\* vertex, and its target drawn by postFlush.
PendingInit ==
    /\ \E config \in PendingConfigs : pipeline = NewPipeline(config)
    /\ renderer = NewRenderer(4, 3)
    /\ shaderObjs = << >>
    /\ call = NoCall
    /\ history = << >>
    /\ object = NoGameObject

PendingNext ==
    \/ Boot
    \/ PostBind
    \/ BatchVert
    \/ PostFlush

SpecPending == PendingInit /\ [][PendingNext]_vars

\* The pipeline bound, on a device that other pipelines bind too, while its
\* shader is switched and vertices wait in its batch.
BindNext ==
    \/ Boot
    \/ SetShader
    \/ BatchVert
    \/ Bind
    \/ OtherPipelineBind

SpecBind == Init /\ [][BindNext]_vars

\* Pipelines whose batch can be filled to the vertex by quads and triangles
\* (twelve vertices of six values) or to one vertex less (seven vertices of
\* seven values), fed through batchQuad, batchTri and drawFillRect alone.
EdgeConfigs ==
    { [ klass |-> "MultiPipeline", vertexCapacity |-> 2, topology |-> Undefined,
        attributes |-> NarrowAttributes, shaders |-> << >> ],
      [ klass |-> "MultiPipeline", vertexCapacity |-> 1, topology |-> Undefined,
        attributes |-> StdAttributes, shaders |-> << >> ] }

EdgeInit ==
    /\ \E config \in EdgeConfigs : pipeline = NewPipeline(config)
    /\ renderer = NewRenderer(4, 3)
    /\ shaderObjs = << >>
    /\ call = NoCall
    /\ history = << >>
    /\ object = NoGameObject

EdgeNext ==
    \/ Boot
    \/ Flush
    \/ BatchQuad
    \/ BatchTri
    \/ DrawFillRect

SpecEdge == EdgeInit /\ [][EdgeNext]_vars

\* The pipeline bound, fed and flushed on a device that another booted
\* pipeline binds in between.
ShareNext ==
    \/ Boot
    \/ Bind
    \/ BatchQuad
    \/ BatchTri
    \/ Flush
    \/ OtherPipelineBind

SpecShare == Init /\ [][ShareNext]_vars

\* A pipeline of UnitConfigs booted, given game objects and fed.
UnitInit ==
    /\ \E config \in UnitConfigs : pipeline = NewPipeline(config)
    /\ renderer = NewRenderer(4, 3)
    /\ shaderObjs = << >>
    /\ call = NoCall
    /\ history = << >>
    /\ object = NoGameObject

UnitNext ==
    \/ Boot
    \/ SetGameObject
    \/ BatchQuad
    \/ BatchTri

SpecUnit == UnitInit /\ [][UnitNext]_vars

\* A pipeline configured with forceZero booted, given game objects and fed.
ZeroInit ==
    /\ \E config \in UnitConfigs : config.forceZero = 1 /\ pipeline = NewPipeline(config)
    /\ renderer = NewRenderer(4, 3)
    /\ shaderObjs = << >>
    /\ call = NoCall
    /\ history = << >>
    /\ object = NoGameObject

ZeroNext ==
    \/ Boot
    \/ SetGameObject
    \/ BatchQuad
    \/ BatchTri
    \/ DrawFillRect

SpecZero == ZeroInit /\ [][ZeroNext]_vars

\* The pipeline sets a Game Object may find through its scene: none (a
\* Canvas renderer), one without and one with the MultiPipeline.
PipelineSets ==
    { NoPipelineSet,
      PipelineSet(<< "SinglePipeline" >>),
      PipelineSet(<< "MultiPipeline", "SinglePipeline" >>) }

\* A Game Object whose pipeline is chosen, changed, given data and reset.
ObjectInit ==
    /\ \E config \in UnitConfigs : config.forceZero = 1 /\ pipeline = NewPipeline(config)
    /\ renderer = NewRenderer(4, 3)
    /\ shaderObjs = << >>
    /\ call = NoCall
    /\ history = << >>
    /\ \E pipelines \in PipelineSets : object = NewGameObject(pipelines)

ObjectNext ==
    \/ InitPipeline
    \/ SetPipeline
    \/ SetPipelineData
    \/ ResetPipeline
    \/ GetPipelineName

SpecObject == ObjectInit /\ [][ObjectNext]_vars

\* The pipeline booted, fed, flushed and destroyed.
DestroyNext ==
    \/ Boot
    \/ Flush
    \/ BatchQuad
    \/ BatchTri
    \/ Destroy

SpecDestroy == Init /\ [][DestroyNext]_vars

\* The pipeline from its construction until it has booted: its shaders set,
\* the pipeline bound, fed and flushed before boot, and boot ending the run.
FirstUseNext ==
    \/ ~pipeline.hasBooted /\ Boot
    \/ ~pipeline.hasBooted /\ SetShadersFromConfig
    \/ ~pipeline.hasBooted /\ Bind
    \/ ~pipeline.hasBooted /\ Flush
    \/ ~pipeline.hasBooted /\ BatchVert
    \/ ~pipeline.hasBooted /\ BatchQuad
    \/ ~pipeline.hasBooted /\ BatchTri
    \/ ~pipeline.hasBooted /\ DrawFillRect

SpecFirstUse == Init /\ [][FirstUseNext]_vars

\* Runs of at most MaxCalls calls, all remembered, on the pipelines of
\* RunConfigs; batchQuad is called with one of three textures.
RunTextures == {2, 3, 4}

RunInit ==
    /\ \E config \in RunConfigs : pipeline = NewPipeline(config)
    /\ renderer = NewRenderer(4, 3)
    /\ shaderObjs = << >>
    /\ call = NoCall
    /\ history = << >>
    /\ object = NoGameObject

RunBoot ==
    /\ Len(history) < MaxCalls
    /\ Record("boot", << >>, boot(World))

RunFlush ==
    /\ Len(history) < MaxCalls
    /\ Record("flush", <<Undefined>>, flush(World, Undefined))

RunBatchVert ==
    /\ Len(history) < MaxCalls
    /\ LET v == VertInputs[1]
       IN  Record("batchVert", <<1>>, batchVert(World, v[1], v[2], v[3], v[4], v[5], v[6], v[7]))

RunBatchQuad ==
    \E texture \in RunTextures :
        /\ Len(history) < MaxCalls
        /\ Record("batchQuad", <<1, texture, Undefined>>,
                  batchQuad(World, QuadInputs[1], texture, Undefined))

RunBatchTri ==
    /\ Len(history) < MaxCalls
    /\ Record("batchTri", <<1, Undefined, Undefined>>,
              batchTri(World, TriInputs[1], Undefined, Undefined))

RunNext ==
    \/ RunBoot
    \/ RunFlush
    \/ RunBatchVert
    \/ RunBatchQuad
    \/ RunBatchTri

SpecRun == RunInit /\ [][RunNext]_vars

\* Remembered runs of one boot() followed by at most MaxFeeds calls that
\* feed or flush the booted pipeline.
FeedBoot ==
    /\ history = << >>
    /\ Record("boot", << >>, boot(World))

FeedFlush ==
    /\ pipeline.hasBooted /\ Len(history) <= MaxFeeds
    /\ Record("flush", <<Undefined>>, flush(World, Undefined))

FeedBatchVert ==
    /\ pipeline.hasBooted /\ Len(history) <= MaxFeeds
    /\ LET v == VertInputs[1]
       IN  Record("batchVert", <<1>>, batchVert(World, v[1], v[2], v[3], v[4], v[5], v[6], v[7]))

FeedBatchQuad ==
    /\ pipeline.hasBooted /\ Len(history) <= MaxFeeds
    /\ Record("batchQuad", <<1, 2, Undefined>>, batchQuad(World, QuadInputs[1], 2, Undefined))

FeedBatchTri ==
    /\ pipeline.hasBooted /\ Len(history) <= MaxFeeds
    /\ Record("batchTri", <<1, Undefined, Undefined>>,
              batchTri(World, TriInputs[1], Undefined, Undefined))

FeedDrawFillRect ==
    /\ pipeline.hasBooted /\ Len(history) <= MaxFeeds
    /\ LET a == RectInputs[1]
       IN  Record("drawFillRect", <<1, Undefined, Undefined>>,
                  drawFillRect(World, a.x, a.y, a.width, a.height, a.color, a.alpha,
                               Undefined, Undefined))

FeedNext ==
    \/ FeedBoot
    \/ FeedFlush
    \/ FeedBatchVert
    \/ FeedBatchQuad
    \/ FeedBatchTri
    \/ FeedDrawFillRect

SpecFeed == RunInit /\ [][FeedNext]_vars

----------------------------------------------------------------------------
(* Properties                                                              *)

\* The entries of the last call's log of one kind, in order.
Logged(ev) == SelectSeq(call.log, LAMBDA e : e.ev = ev)
LoggedNext(ev) == SelectSeq(call'.log, LAMBDA e : e.ev = ev)

\* C1: on a booted pipeline whose vertexCapacity is at least 6 that is fed
\* through batchQuad, batchTri and drawFillRect and flushed, vertexCount
\* stays within 0 .. vertexCapacity, and every single vertex write of a call
\* is the write of a vertex below the capacity.
C1_CountWithinCapacity ==
    (pipeline.hasBooted /\ pipeline.vertexCapacity >= 6) =>
        /\ pipeline.vertexCount >= 0
        /\ pipeline.vertexCount <= pipeline.vertexCapacity
        /\ \A i \in 1..Len(call.log) :
              call.log[i].ev = "batchVert" => call.log[i].a + 1 <= pipeline.vertexCapacity

\* A batchQuad that found the batch too full, flushed it and wrote its six
\* vertices into the empty buffer.
C1_Witness ==
    /\ pipeline.hasBooted /\ pipeline.vertexCapacity >= 6
    /\ call.op = "batchQuad" /\ ~call.threw
    /\ Len(Logged("drawArrays")) = 1
    /\ pipeline.vertexCount = 6

\* C2: whenever setShader or setShadersFromConfig replaces currentShader,
\* no vertex is pending at that moment.
C2_FlushedBeforeShaderChange ==
    call.op \in {"setShader", "setShadersFromConfig"} =>
        \A i \in 1..Len(call.log) : call.log[i].ev = "currentShader" => call.log[i].b = 0

\* The amount shouldFlush adds: 0 when the argument is omitted.
AmountOf(arg) == IF arg = Undefined THEN 0 ELSE arg

\* C3: shouldFlush(amount) returns true exactly when vertexCount + amount >=
\* vertexCapacity, amount being 0 when omitted, and changes nothing.
C3_ShouldFlushIff ==
    [][ call'.op = "shouldFlush" =>
          /\ call'.ret = B(pipeline.vertexCount + AmountOf(call'.args[1]) >= pipeline.vertexCapacity)
          /\ call'.log = << >> /\ ~call'.threw
          /\ UNCHANGED <<pipeline, renderer, shaderObjs>> ]_vars

\* shouldFlush() without an argument answering true on a booted pipeline
\* whose batch is exactly full.
C3_Witness ==
    /\ call.op = "shouldFlush" /\ call.args = <<Undefined>> /\ call.ret = 1
    /\ pipeline.hasBooted /\ pipeline.vertexCount = pipeline.vertexCapacity

\* C4: a flush that starts with vertexCount > 0 and returns leaves
\* vertexCount = 0, whatever isPostFlush is.
C4_FlushDrains ==
    [][ (call'.op = "flush" /\ ~call'.threw /\ pipeline.vertexCount > 0) =>
            pipeline'.vertexCount = 0 ]_vars

\* A flush(true) that drew a batch.
C4_Witness ==
    /\ call.op = "flush" /\ call.args = <<1>> /\ ~call.threw
    /\ Len(Logged("drawArrays")) = 1
    /\ pipeline.vertexCount = 0

\* C5: a flush that starts with vertexCount = 0 uploads nothing, draws
\* nothing, calls no hook and changes no field of the pipeline or the device.
C5_EmptyFlushIsNoOp ==
    [][ (call'.op = "flush" /\ pipeline.vertexCount = 0) =>
          /\ call'.log = << >> /\ ~call'.threw
          /\ UNCHANGED <<pipeline, renderer, shaderObjs>> ]_vars

\* A flush of the empty batch of a booted pipeline.
C5_Witness ==
    /\ call.op = "flush" /\ call.log = << >>
    /\ pipeline.hasBooted /\ pipeline.vertexCount = 0

\* The uploads of the call that ends in the next state.
UploadsNext == SelectSeq(call'.log, LAMBDA e : e.ev \in {"bufferData", "bufferSubData"})

\* What C6 says of a flush that starts with n > 0 vertices and returns; the
\* upload of the part of the buffer is bytes long.
FlushUploadsAndDraws(bytes) ==
    LET n == pipeline.vertexCount
        up == UploadsNext
        draws == LoggedNext("drawArrays")
    IN  /\ Len(up) = 1 /\ Len(draws) = 1
        /\ draws[1].a = pipeline.topology /\ draws[1].b = 0 /\ draws[1].c = n
        /\ IF n = pipeline.vertexCapacity
           THEN up[1].ev = "bufferData" /\ up[1].b = pipeline.byteLength
           ELSE up[1].ev = "bufferSubData" /\ up[1].a = 0 /\ up[1].b = bytes

\* C6 as stated: one upload and one draw of n vertices from vertex 0 with
\* the pipeline's topology; the upload is the whole buffer when n equals
\* vertexCapacity and else exactly the bytes [0, n * vertexSize).
C6_UploadExactRange ==
    [][ (call'.op = "flush" /\ ~call'.threw /\ pipeline.vertexCount > 0) =>
          FlushUploadsAndDraws(pipeline.vertexCount * shaderObjs[pipeline.currentShader].vertexSize)
      ]_vars

\* C6 as amended: the same, the upload of a batch that is not exactly full
\* being the bytes [0, n * vertexSize) as far as the buffer reaches, with the
\* vertexSize of the current shader.
C6_UploadClippedRange ==
    [][ (call'.op = "flush" /\ ~call'.threw /\ pipeline.vertexCount > 0) =>
          FlushUploadsAndDraws(Min(pipeline.vertexCount * shaderObjs[pipeline.currentShader].vertexSize,
                                   pipeline.byteLength))
      ]_vars

\* A flush of more vertices than the capacity, whose upload ended at the
\* end of the buffer.
C6_Witness ==
    /\ call.op = "flush" /\ ~call.threw
    /\ Len(Logged("bufferSubData")) = 1
    /\ Logged("bufferSubData")[1].b = pipeline.byteLength
    /\ Logged("drawArrays")[1].c > pipeline.vertexCapacity

\* C7: a setShader(s) that returns switches exactly when s is not the
\* current shader or the device's program is not the current shader's; when
\* it switches it flushes the pending batch (the draw is made with the
\* previous shader current), resets the textures, makes its vertex buffer
\* the active one, binds s and then makes s current, in this order.
C7_SetShaderOrder ==
    [][ (call'.op = "setShader" /\ ~call'.threw) =>
          LET s == call'.args[1]
              old == pipeline.currentShader
              switches == s # old \/ renderer.currentProgram # shaderObjs[old].program
              log == call'.log
              n == Len(log)
          IN  IF switches
              THEN /\ n = IF pipeline.vertexCount > 0 THEN 8 ELSE 4
                   /\ n = 8 => /\ log[1].ev = "onBeforeFlush"
                               /\ log[2].ev \in {"bufferData", "bufferSubData"}
                               /\ log[3].ev = "drawArrays"
                               /\ log[3].c = pipeline.vertexCount /\ log[3].d = old
                               /\ log[4].ev = "onAfterFlush"
                   /\ log[n - 3].ev = "resetTextures"
                   /\ log[n - 2].ev = "setVertexBuffer" /\ log[n - 2].a = pipeline.vertexBuffer
                   /\ log[n - 1].ev = "bind" /\ log[n - 1].a = s
                   /\ log[n].ev = "currentShader" /\ log[n].a = s /\ log[n].c = old
                   /\ pipeline'.currentShader = s
                   /\ renderer'.currentProgram = shaderObjs[s].program
                   /\ renderer'.currentVertexBuffer = pipeline.vertexBuffer
                   /\ renderer'.textures = << >>
              ELSE /\ log = << >>
                   /\ pipeline'.currentShader = old ]_vars

\* A setShader that switched to another shader with vertices pending.
C7_Witness ==
    /\ call.op = "setShader" /\ ~call.threw
    /\ Len(call.log) = 8
    /\ call.log[3].ev = "drawArrays" /\ call.log[3].d # pipeline.currentShader
    /\ call.log[8].ev = "currentShader"

\* C8: setShader with the current shader, whose program is the device's
\* current program, changes nothing and draws nothing, also with vertices
\* pending.
C8_SetSameShaderIsNoOp ==
    [][ ( /\ call'.op = "setShader"
          /\ call'.args[1] = pipeline.currentShader
          /\ renderer.currentProgram = shaderObjs[pipeline.currentShader].program ) =>
          /\ call'.log = << >> /\ ~call'.threw
          /\ UNCHANGED <<pipeline, renderer, shaderObjs>> ]_vars

\* A setShader that did nothing while vertices were pending.
C8_Witness ==
    /\ call.op = "setShader" /\ call.log = << >> /\ ~call.threw
    /\ call.args[1] = pipeline.currentShader
    /\ pipeline.vertexCount > 0

\* C9: every batchQuad on a booted pipeline returns having appended six
\* vertices: vertexCount is 6 after a flush and has grown by 6 otherwise.
C9_QuadAppendsSix ==
    [][ (call'.op = "batchQuad" /\ pipeline.hasBooted) =>
          /\ ~call'.threw
          /\ Len(LoggedNext("batchVert")) = 6
          /\ pipeline'.vertexCount =
                IF Len(LoggedNext("drawArrays")) > 0 THEN 6 ELSE pipeline.vertexCount + 6 ]_vars

\* C10: the six vertices of a batchQuad are TL, BL, BR, TL, BR, TR with the
\* texture coordinates (u0,v0), (u0,v1), (u1,v1), (u0,v0), (u1,v1), (u1,v0)
\* and the tints TL, BL, BR, TL, BR, TR, all with one unit and the call's
\* tintEffect.
C10_QuadVertexOrder ==
    (call.op = "batchQuad" /\ ~call.threw) =>
        LET q == QuadInputs[call.args[1]]
            v == Logged("batchVert")
            unit == v[1].vals[5]
        IN  /\ Len(v) = 6
            /\ v[1].vals = <<q.x0, q.y0, q.u0, q.v0, unit, q.tintEffect, q.tintTL>>
            /\ v[2].vals = <<q.x1, q.y1, q.u0, q.v1, unit, q.tintEffect, q.tintBL>>
            /\ v[3].vals = <<q.x2, q.y2, q.u1, q.v1, unit, q.tintEffect, q.tintBR>>
            /\ v[4].vals = <<q.x0, q.y0, q.u0, q.v0, unit, q.tintEffect, q.tintTL>>
            /\ v[5].vals = <<q.x2, q.y2, q.u1, q.v1, unit, q.tintEffect, q.tintBR>>
            /\ v[6].vals = <<q.x3, q.y3, q.u1, q.v0, unit, q.tintEffect, q.tintTR>>
            /\ \A i \in 1..6 : v[i].a = v[1].a + i - 1

\* A batchQuad that flushed first and then wrote its six vertices.
C10_Witness ==
    /\ call.op = "batchQuad" /\ ~call.threw /\ call.ret = 1
    /\ Len(Logged("batchVert")) = 6
    /\ Len(Logged("drawArrays")) = 1

\* The number of vertices the call that ends in the next state asks room for.
AmountOfCall == IF call'.op = "batchQuad" THEN 6 ELSE 3

\* C11 as stated: a batchQuad or batchTri that returns answers true exactly
\* when a draw call was issued during the call.
C11_TrueIffDrawn ==
    [][ (call'.op \in {"batchQuad", "batchTri"} /\ ~call'.threw) =>
          (call'.ret = 1 <=> Len(LoggedNext("drawArrays")) > 0) ]_vars

\* C11 as amended: it answers true exactly when shouldFlush(6), for batchTri
\* shouldFlush(3), held on entry, which is when it called flush; a draw call
\* was issued exactly when, in addition, vertices were pending.
C11_TrueIffShouldFlush ==
    [][ (call'.op \in {"batchQuad", "batchTri"} /\ ~call'.threw) =>
          LET full == pipeline.vertexCount + AmountOfCall >= pipeline.vertexCapacity
          IN  /\ call'.ret = B(full)
              /\ Len(LoggedNext("drawArrays")) = B(full /\ pipeline.vertexCount > 0) ]_vars

\* A batchQuad that answered true on an empty batch, having drawn nothing.
C11_Witness ==
    /\ call.op = "batchQuad" /\ ~call.threw /\ call.ret = 1
    /\ Len(Logged("drawArrays")) = 0
    /\ Len(Logged("batchVert")) = 6

RECURSIVE EventsOf(_, _)
\* The entries of one kind of the logs of the calls of a history, in order.
EventsOf(h, ev) ==
    IF h = << >> THEN << >>
    ELSE EventsOf(SubSeq(h, 1, Len(h) - 1), ev) \o SelectSeq(h[Len(h)].log, LAMBDA e : e.ev = ev)

\* boot() followed by three batchQuad calls with distinct textures that all
\* returned, on the pipeline configured with vertexCapacity: 2.
ThreeQuadsRun ==
    /\ pipeline.config.vertexCapacity = 2
    /\ Len(history) = 4
    /\ history[1].op = "boot"
    /\ \A i \in 2..4 : history[i].op = "batchQuad" /\ ~history[i].threw
    /\ Cardinality({history[i].args[2] : i \in 2..4}) = 3

\* C12: after boot() with vertexCapacity: 2 and three batchQuad calls with
\* distinct textures, exactly two draw calls have been issued, each over the
\* six vertices appended since the flush before it, and the third quad is
\* what is pending.
C12_TwoDrawsBeforeThirdQuad ==
    ThreeQuadsRun =>
        LET draws == EventsOf(history, "drawArrays")
        IN  /\ Len(draws) = 2
            /\ \A i \in 1..Len(draws) : draws[i].c = 6
            /\ pipeline.vertexCount = 6

\* The position in a log of its first entry of one kind (0 when it has none).
FirstOf(log, ev) ==
    IF \E i \in 1..Len(log) : log[i].ev = ev
    THEN CHOOSE i \in 1..Len(log) : log[i].ev = ev /\ \A j \in 1..(i - 1) : log[j].ev # ev
    ELSE 0

\* C13: a batchTri that returns has flushed, before writing, exactly when
\* shouldFlush(3) held on entry, and has then appended three vertices: the
\* positions (x0,y0), (x1,y1), (x2,y2) with the texture coordinates (u0,v0),
\* (u0,v1), (u1,v1) and the tints TL, TR, BL, in this order.
C13_TriFlushThenThree ==
    [][ (call'.op = "batchTri" /\ ~call'.threw) =>
          LET t == TriInputs[call'.args[1]]
              full == pipeline.vertexCount + 3 >= pipeline.vertexCapacity
              log == call'.log
              v == LoggedNext("batchVert")
              unit == v[1].vals[5]
          IN  /\ Len(LoggedNext("drawArrays")) = B(full /\ pipeline.vertexCount > 0)
              /\ Len(LoggedNext("setTexture2D")) = B(full)
              /\ FirstOf(log, "drawArrays") < FirstOf(log, "batchVert")
              /\ FirstOf(log, "setTexture2D") < FirstOf(log, "batchVert")
              /\ Len(v) = 3
              /\ v[1].vals = <<t.x0, t.y0, t.u0, t.v0, unit, t.tintEffect, t.tintTL>>
              /\ v[2].vals = <<t.x1, t.y1, t.u0, t.v1, unit, t.tintEffect, t.tintTR>>
              /\ v[3].vals = <<t.x2, t.y2, t.u1, t.v1, unit, t.tintEffect, t.tintBL>>
              /\ v[1].a = (IF full THEN 0 ELSE pipeline.vertexCount)
              /\ v[2].a = v[1].a + 1 /\ v[3].a = v[1].a + 2
              /\ pipeline'.vertexCount = v[1].a + 3 ]_vars

\* A batchTri that drew the pending batch and then wrote its three vertices.
C13_Witness ==
    /\ call.op = "batchTri" /\ ~call.threw
    /\ Len(Logged("drawArrays")) = 1
    /\ Len(Logged("batchVert")) = 3
    /\ pipeline.vertexCount = 3

\* C14 as stated: every batchVert that returns raises vertexCount by one, so
\* that N appends after a flush give N, and the count stays within
\* vertexCapacity.
C14_AppendsBounded ==
    [][ (call'.op = "batchVert" /\ ~call'.threw) =>
          /\ pipeline'.vertexCount = pipeline.vertexCount + 1
          /\ pipeline'.vertexCount <= pipeline.vertexCapacity ]_vars

\* C14 as amended: every batchVert that returns raises vertexCount by one,
\* whatever the count was, also at and above vertexCapacity; it is the
\* vertex numbered by the count on entry that it writes.
C14_AppendsCounted ==
    [][ (call'.op = "batchVert" /\ ~call'.threw) =>
          /\ pipeline'.vertexCount = pipeline.vertexCount + 1
          /\ Len(call'.log) = 1
          /\ call'.log[1].ev = "batchVert" /\ call'.log[1].a = pipeline.vertexCount ]_vars

\* A batchVert that took the count above the capacity.
C14_Witness ==
    /\ call.op = "batchVert" /\ ~call.threw
    /\ pipeline.hasBooted
    /\ pipeline.vertexCount > pipeline.vertexCapacity

\* A run that booted the pipeline once, as its first call, and in which no
\* call threw.
CleanRun ==
    /\ Len(history) >= 1
    /\ history[1].op = "boot"
    /\ \A i \in 1..Len(history) : ~history[i].threw /\ (i > 1 => history[i].op # "boot")

\* The 32 bit values of the byte range [0, vertexCount * vertexSize) are the
\* records of the vertices of the batch, seven values each, one after the
\* other.
RecordsTile ==
    LET vertexSize == shaderObjs[pipeline.currentShader].vertexSize
    IN  \A i \in 0..((pipeline.vertexCount * vertexSize) \div BytesPerSlot) - 1 :
            /\ i \in DOMAIN pipeline.slots
            /\ pipeline.slots[i] = Held(i \div VertComponents, i % VertComponents)

C16_FloorsOfArguments ==
    (call.op = "drawFillRect" /\ ~call.threw) =>
        LET a == RectInputs[call.args[1]]
            v == Logged("batchVert")
            left == Floor2(a.x)
            top == Floor2(a.y)
            right == Floor2(a.x + a.width)
            bottom == Floor2(a.y + a.height)
        IN  /\ Len(v) = 6
            /\ v[1].vals[1] = left /\ v[1].vals[2] = top
            /\ v[2].vals[1] = left /\ v[2].vals[2] = bottom
            /\ v[3].vals[1] = right /\ v[3].vals[2] = bottom
            /\ v[6].vals[1] = right /\ v[6].vals[2] = top


\* C17: a drawFillRect that returns has appended exactly six vertices, one
\* quad, all with one tint and tintEffect 0; with flipUV true or omitted the
\* quad's texture coordinates are u0 = 0, v0 = 1, u1 = 1, v1 = 0, with flipUV
\* false they are (0,0)-(1,1); drawFillRect(10, 20, 30, 40, color, 1.0) has
\* the corners (10,20)-(40,60).
C17_OneQuadOneTint ==
    (call.op = "drawFillRect" /\ ~call.threw) =>
        LET a == RectInputs[call.args[1]]
            flipUV == call.args[3]
            v == Logged("batchVert")
            v0 == IF flipUV = 0 THEN 0 ELSE 1
            v1 == IF flipUV = 0 THEN 1 ELSE 0
            uv(i) == <<v[i].vals[3], v[i].vals[4]>>
            xy(i) == <<v[i].vals[1], v[i].vals[2]>>
        IN  /\ Len(v) = 6
            /\ \A i \in 1..6 :
                   /\ v[i].vals[7] = getTintAppendFloatAlphaAndSwap(a.color, a.alpha)
                   /\ v[i].vals[6] = 0
                   /\ v[i].a = v[1].a + i - 1
            /\ uv(1) = <<0, v0>> /\ uv(2) = <<0, v1>> /\ uv(3) = <<1, v1>>
            /\ uv(4) = <<0, v0>> /\ uv(5) = <<1, v1>> /\ uv(6) = <<1, v0>>
            /\ (a.x = 20 /\ a.y = 40 /\ a.width = 60 /\ a.height = 80) =>
                   /\ xy(1) = <<10, 20>> /\ xy(2) = <<10, 60>> /\ xy(3) = <<40, 60>>
                   /\ xy(4) = <<10, 20>> /\ xy(5) = <<40, 60>> /\ xy(6) = <<40, 20>>

\* drawFillRect(10, 20, 30, 40, color, 1.0) with flipUV omitted has written
\* its six vertices, the first at (10,20) with v = 1.
C17_Witness ==
    /\ call.op = "drawFillRect" /\ ~call.threw
    /\ call.args[1] = 2 /\ call.args[3] = Undefined
    /\ Len(Logged("batchVert")) = 6
    /\ Logged("batchVert")[1].vals[1] = 10
    /\ Logged("batchVert")[1].vals[4] = 1


\* C18: boot happens at most once: a boot() on a pipeline whose hasBooted is
\* already true creates no vertex buffer and no shaders, and leaves the
\* pipeline's buffer and shaders the ones it had.
C18_BootAtMostOnce ==
    [][ (call'.op = "boot" /\ pipeline.hasBooted) =>
            /\ Len(LoggedNext("createVertexBuffer")) = 0
            /\ Len(shaderObjs') = Len(shaderObjs)
            /\ pipeline'.vertexBuffer = pipeline.vertexBuffer
            /\ pipeline'.shaders = pipeline.shaders ]_vars


\* The calls C19 is about.
FirstUseOps == {"batchVert", "batchQuad", "batchTri", "drawFillRect", "flush", "bind"}

\* C19: while hasBooted is false, no batchVert, batchQuad, batchTri,
\* drawFillRect, flush or bind writes a vertex to the batch, changes
\* vertexCount, uploads the buffer or issues a draw call.
C19_NothingBeforeBoot ==
    [][ (~pipeline.hasBooted /\ call'.op \in FirstUseOps) =>
            /\ \A i \in 1..Len(call'.log) :
                   call'.log[i].ev \notin {"batchVert", "bufferData", "bufferSubData", "drawArrays"}
            /\ pipeline'.vertexCount = 0
            /\ pipeline'.slots = pipeline.slots
            /\ ~pipeline'.hasBooted ]_vars

\* A batchQuad on a pipeline that has its shaders but was never booted: it
\* asked for a flush, bound its texture and stopped at the first vertex.
C19_Witness ==
    /\ ~pipeline.hasBooted
    /\ pipeline.currentShader # Undefined
    /\ call.op = "batchQuad" /\ call.threw
    /\ Len(Logged("setTexture2D")) = 1
    /\ Len(Logged("batchVert")) = 0


\* C20: after a boot() that returns, the buffer is laid out for the largest
\* vertexSize and the largest vertexComponentCount of the pipeline's
\* shaders: it holds vertexCapacity * (largest vertexSize) bytes, and
\* vertexCapacity is the configured number times the largest component
\* count; vertexCount is 0, currentShader is the first shader of the list
\* and hasBooted is true.
C20_AfterBoot ==
    (call.op = "boot" /\ ~call.threw) =>
        LET sizes == {shaderObjs[pipeline.shaders[i]].vertexSize : i \in 1..Len(pipeline.shaders)}
            counts == {shaderObjs[pipeline.shaders[i]].vertexComponentCount :
                           i \in 1..Len(pipeline.shaders)}
            largest(S) == CHOOSE m \in S : \A n \in S : n <= m
        IN  /\ Len(pipeline.shaders) > 0
            /\ pipeline.byteLength = pipeline.vertexCapacity * largest(sizes)
            /\ DOMAIN pipeline.slots = 0..(pipeline.byteLength \div BytesPerSlot) - 1
            /\ pipeline.vertexCapacity =
                   GetFastValue(pipeline.config.vertexCapacity, renderer.batchSize) * largest(counts)
            /\ pipeline.vertexCount = 0
            /\ pipeline.currentShader = pipeline.shaders[1]
            /\ pipeline.hasBooted


\* C21: after a boot() of a pipeline whose configuration gives
\* vertexCapacity: N, the pipeline's vertexCapacity, the count at which a
\* flush is forced, is N.
C21_CapacityIsConfigured ==
    (call.op = "boot" /\ ~call.threw /\ pipeline.config.vertexCapacity # Undefined) =>
        pipeline.vertexCapacity = pipeline.config.vertexCapacity


\* C22: after a destroy() of a booted pipeline every shader of the pipeline
\* is destroyed and its vertex buffer deleted, and the pipeline holds no
\* reference to them or to its collaborators: game, renderer, gl, view,
\* shaders, currentShader, vertexData and vertexBuffer are null.
C22_DestroyReleasesAll ==
    [][ (call'.op = "destroy" /\ ~call'.threw /\ pipeline.hasBooted) =>
            /\ \A i \in 1..Len(pipeline.shaders) : shaderObjs'[pipeline.shaders[i]].destroyed
            /\ \E i \in 1..Len(call'.log) :
                   call'.log[i].ev = "deleteBuffer" /\ call'.log[i].a = pipeline.vertexBuffer
            /\ pipeline'.game = Null /\ pipeline'.renderer = Null
            /\ pipeline'.gl = Null /\ pipeline'.view = Null
            /\ pipeline'.shaders = NullList
            /\ pipeline'.vertexData = Null /\ pipeline'.vertexBuffer = Null
            /\ pipeline'.currentShader = Null ]_vars


\* C23: getShaderByName(name) returns the first shader of the list, in its
\* order, that has the name; when no shader has it, it returns undefined;
\* in both cases it throws nothing and changes nothing of the pipeline, the
\* renderer or the shaders.
C23_FirstOfNameOrAbsent ==
    [][ call'.op = "getShaderByName" =>
            LET name == ShaderNames[call'.args[1]]
                ids == pipeline.shaders
                hits == {i \in 1..Len(ids) : shaderObjs[ids[i]].name = name}
            IN  /\ ~call'.threw
                /\ call'.log = << >>
                /\ hits = {} => call'.ret = Undefined
                /\ hits # {} =>
                       \E i \in hits : /\ call'.ret = ids[i]
                                       /\ \A j \in hits : i <= j
                /\ UNCHANGED <<pipeline, renderer, shaderObjs>> ]_vars

\* The second of three shaders was found, the third having the same name.
C23_Witness ==
    /\ call.op = "getShaderByName" /\ ~call.threw
    /\ Len(pipeline.shaders) = 3
    /\ call.ret = pipeline.shaders[2]
    /\ shaderObjs[pipeline.shaders[3]].name = shaderObjs[pipeline.shaders[2]].name


\* The entries of the log of the call that ends in the next state with the
\* event and the field a.
LoggedNextOf(ev, a) == SelectSeq(call'.log, LAMBDA e : e.ev = ev /\ e.a = a)

\* What resize does to a render target the pipeline holds: the framebuffer
\* and the texture are deleted, each once, and replaced by new ones of the
\* size (width * targetScale, height * targetScale).
ResizeReplacesTarget ==
    LET size == ResizeInputs[call'.args[1]]
        width == size[1] * pipeline.targetScale
        height == size[2] * pipeline.targetScale
        texture == pipeline'.targetTexture
        framebuffer == pipeline'.targetFramebuffer
    IN  /\ texture # Null /\ framebuffer # Null
        /\ texture # pipeline.targetTexture /\ framebuffer # pipeline.targetFramebuffer
        /\ renderer'.targets[texture - TargetBase] =
               [width |-> width, height |-> height, live |-> TRUE]
        /\ renderer'.framebuffers[framebuffer] =
               [width |-> width, height |-> height, texture |-> texture, live |-> TRUE]
        /\ Len(LoggedNextOf("deleteTexture", pipeline.targetTexture)) = 1
        /\ Len(LoggedNextOf("deleteFramebuffer", pipeline.targetFramebuffer)) = 1
        /\ Len(LoggedNext("deleteTexture")) = 1 /\ Len(LoggedNext("deleteFramebuffer")) = 1
        /\ Len(LoggedNext("createTexture")) = 1 /\ Len(LoggedNext("createFramebuffer")) = 1

\* C24: every resize(w, h) of a booted pipeline configured with a render
\* target leaves it with a target texture and framebuffer of the size
\* (w * targetScale, h * targetScale), the target it had before having been
\* deleted exactly once; a pipeline configured without a target has none
\* after a resize.
C24_ResizeKeepsTarget ==
    [][ (call'.op = "resize" /\ ~call'.threw /\ pipeline.hasBooted) =>
            IF ConfigValue(pipeline.config, "target") = 1
            THEN /\ pipeline'.targetTexture # Null
                 /\ pipeline.targetTexture # Null => ResizeReplacesTarget
            ELSE /\ pipeline'.targetTexture = Null /\ pipeline'.targetFramebuffer = Null
                 /\ Len(LoggedNext("createTexture")) = 0 ]_vars


\* C25: a resize(w, h) that returns has stored width = w and height = h and
\* made the projection the orthographic one of left 0, right w, bottom h,
\* top 0, near -1000, far 1000, of the unscaled w and h; it has set that
\* matrix once on every shader of the pipeline that declares
\* uProjectionMatrix and on no other; vertexCount is as before and nothing
\* was uploaded or drawn.
C25_ResizeProjection ==
    [][ (call'.op = "resize" /\ ~call'.threw) =>
            LET size == ResizeInputs[call'.args[1]]
                matrix == <<0, size[1], size[2], 0, 0 - 1000, 1000>>
                ids == pipeline.shaders
                set == LoggedNext("setMatrix4fv")
                declaring == {ids[i] : i \in {j \in 1..Len(ids) :
                                  "uProjectionMatrix" \in shaderObjs[ids[j]].uniforms}}
            IN  /\ pipeline'.width = size[1] /\ pipeline'.height = size[2]
                /\ pipeline'.projectionMatrix = matrix
                /\ {set[i].a : i \in 1..Len(set)} = declaring
                /\ Len(set) = Cardinality(declaring)
                /\ \A i \in 1..Len(set) : set[i].vals = matrix
                /\ pipeline'.vertexCount = pipeline.vertexCount
                /\ pipeline'.shaders = pipeline.shaders
                /\ \A i \in 1..Len(call'.log) :
                       call'.log[i].ev \notin {"drawArrays", "bufferData", "bufferSubData"} ]_vars

\* A resize of a pipeline with a target of twice the size and two shaders,
\* vertices pending: the projection is of the unscaled size and went to the
\* one shader that declares it.
C25_Witness ==
    /\ call.op = "resize" /\ ~call.threw
    /\ pipeline.targetTexture # Null /\ pipeline.targetScale = 2
    /\ pipeline.vertexCount > 0
    /\ Len(pipeline.shaders) = 2
    /\ pipeline.projectionMatrix = <<0, 8, 6, 0, 0 - 1000, 1000>>
    /\ Len(Logged("setMatrix4fv")) = 1


\* C26: a postBind that returns has made the pipeline's target framebuffer
\* the one drawn into exactly when the pipeline holds a render target, has
\* cleared it to (0,0,0,0) exactly when it holds one and targetAutoClear is
\* true, and has called onPostBind last, once, in every case; without a
\* target the framebuffer binding is as before and nothing is cleared.
C26_PostBindRedirects ==
    [][ (call'.op = "postBind" /\ ~call'.threw) =>
            LET hasTarget == pipeline.targetTexture # Null
                binds == LoggedNext("setFramebuffer")
                clears == LoggedNext("clear")
                log == call'.log
            IN  /\ Len(binds) = (IF hasTarget THEN 1 ELSE 0)
                /\ hasTarget => /\ binds[1].a = pipeline.targetFramebuffer
                                /\ renderer'.currentFramebuffer = pipeline.targetFramebuffer
                /\ ~hasTarget => renderer'.currentFramebuffer = renderer.currentFramebuffer
                /\ Len(clears) = (IF hasTarget /\ pipeline.targetAutoClear THEN 1 ELSE 0)
                /\ \A i \in 1..Len(clears) :
                       /\ clears[i].a = pipeline.targetFramebuffer
                       /\ clears[i].vals = <<0, 0, 0, 0>>
                /\ Len(LoggedNext("onPostBind")) = 1
                /\ log[Len(log)].ev = "onPostBind"
                /\ pipeline' = pipeline ]_vars

\* A postBind that left the default framebuffer for the target and cleared
\* the target.
C26_Witness ==
    /\ call.op = "postBind" /\ ~call.threw
    /\ pipeline.targetTexture # Null /\ pipeline.targetAutoClear
    /\ renderer.currentFramebuffer = pipeline.targetFramebuffer
    /\ Len(Logged("clear")) = 1
    /\ Len(Logged("onPostBind")) = 1


\* C27: a postFlush that returns, on a pipeline holding a render target: the
\* default framebuffer was made the one drawn into first; exactly one quad
\* was appended, of the corners (0,0)-(target width, target height), after
\* the target texture was bound, its vertices carrying the unit it was bound
\* to; the flush came after the quad; on return vertexCount is 0, the
\* default framebuffer is drawn into, and onPostFlush was called last,
\* after the draw call.
C27_PostFlushDrawsTarget ==
    [][ (call'.op = "postFlush" /\ ~call'.threw) =>
            LET log == call'.log
                n == Len(log)
                texture == pipeline.targetTexture
                target == renderer.targets[texture - TargetBase]
                v == LoggedNext("batchVert")
                first(ev) == FirstOf(log, ev)
                last(ev) == CHOOSE i \in 1..n : log[i].ev = ev /\ \A j \in (i + 1)..n : log[j].ev # ev
                bound == SelectSeq(log, LAMBDA e : e.ev = "setTexture2D" /\ e.a = texture)
            IN  /\ texture # Null
                /\ log[1].ev = "setFramebuffer" /\ log[1].a = Null
                /\ Len(v) = 6
                /\ <<v[1].vals[1], v[1].vals[2]>> = <<0, 0>>
                /\ <<v[2].vals[1], v[2].vals[2]>> = <<0, target.height>>
                /\ <<v[3].vals[1], v[3].vals[2]>> = <<target.width, target.height>>
                /\ <<v[4].vals[1], v[4].vals[2]>> = <<0, 0>>
                /\ <<v[5].vals[1], v[5].vals[2]>> = <<target.width, target.height>>
                /\ <<v[6].vals[1], v[6].vals[2]>> = <<target.width, 0>>
                /\ Len(bound) >= 1
                /\ \A i \in 1..6 : v[i].vals[5] = bound[Len(bound)].b
                /\ renderer'.textures[bound[Len(bound)].b + 1] = texture
                /\ first("batchVert") + 5 < last("drawArrays")
                /\ log[last("drawArrays")].c >= 6
                /\ pipeline'.vertexCount = 0
                /\ renderer'.currentFramebuffer = Null
                /\ Len(LoggedNext("onPostFlush")) = 1
                /\ log[n].ev = "onPostFlush" ]_vars

\* A postFlush with two vertices pending while the target was bound: the
\* pending vertices were flushed first, then the quad was drawn.
C27_Witness ==
    /\ call.op = "postFlush" /\ ~call.threw
    /\ Len(Logged("drawArrays")) = 2
    /\ Logged("drawArrays")[1].c = 2 /\ Logged("drawArrays")[2].c = 6
    /\ Len(Logged("onPostFlush")) = 1
    /\ pipeline.vertexCount = 0
    /\ renderer.currentFramebuffer = Null


C29_BindRebindsOnChange ==
    [][ (call'.op = "bind" /\ ~call'.threw) =>
            LET log == call'.log
                changed == renderer.currentVertexBuffer # pipeline.vertexBuffer
            IN  /\ Len(log) = 2
                /\ log[1].ev = "setVertexBuffer"
                /\ log[1].a = pipeline.vertexBuffer
                /\ renderer'.currentVertexBuffer = pipeline.vertexBuffer
                /\ log[2].ev = "bind"
                /\ log[2].a = pipeline.currentShader
                /\ renderer'.currentProgram = shaderObjs[pipeline.currentShader].program
                /\ (log[2].b = 1) <=> changed
                /\ Len(LoggedNext("drawArrays")) = 0
                /\ pipeline'.vertexCount = pipeline.vertexCount
                /\ pipeline'.currentShader = pipeline.currentShader
                /\ pipeline' = pipeline
                /\ shaderObjs' = shaderObjs ]_vars

\* A bind with vertices waiting in the batch that took the device back from
\* another pipeline and had the shader set its attributes.
C29_Witness ==
    /\ call.op = "bind" /\ ~call.threw
    /\ pipeline.vertexCount > 0
    /\ Len(call.log) = 2
    /\ call.log[1].b = 1
    /\ call.log[2].ev = "bind" /\ call.log[2].b = 1
    /\ renderer.currentVertexBuffer = pipeline.vertexBuffer


\* C30: on a pipeline configured with forceZero, currentUnit is 0, a
\* setGameObject that returns has returned 0, and every vertex written by a
\* batchQuad, batchTri or drawFillRect carries unit 0.
C30_ForceZeroUnits ==
    pipeline.forceZero =>
        /\ pipeline.currentUnit = 0
        /\ (call.op = "setGameObject" /\ ~call.threw) => call.ret = 0
        /\ call.op \in {"batchQuad", "batchTri", "drawFillRect"} =>
               \A i \in 1..Len(Logged("batchVert")) : Logged("batchVert")[i].vals[5] = 0


\* The pipeline set of the Game Object holds the name passed (for
\* initPipeline the omitted name is MULTI_PIPELINE).
Holds(g, name) ==
    g.pipelines.present /\ \E i \in 1..Len(g.pipelines.names) : g.pipelines.names[i] = name

\* C31: initPipeline never throws; it returns true exactly when the
\* renderer has a pipeline set that holds the name, and then defaultPipeline
\* and pipeline are both the instance of that name and nothing else of the
\* Game Object has changed; otherwise it returns false and the Game Object
\* is as before.
C31_InitPipelineHitOrMiss ==
    [][ call'.op = "initPipeline" =>
            LET key == PipelineArgs[call'.args[1]]
                name == IF key = "" THEN MULTI_PIPELINE ELSE key
                hit == Holds(object, name)
            IN  /\ ~call'.threw
                /\ call'.ret = B(hit)
                /\ hit => /\ object'.defaultPipeline # Null
                          /\ object.pipelines.names[object'.defaultPipeline] = name
                          /\ object'.pipeline = object'.defaultPipeline
                          /\ object'.pipelineData = object.pipelineData
                /\ ~hit => object' = object ]_vars

\* An initPipeline without a name that found the MultiPipeline and replaced
\* the pipeline a setPipeline had chosen.
C31_Witness ==
    /\ call.op = "initPipeline" /\ call.args[1] = 1 /\ call.ret = 1
    /\ object.pipelines.names[object.pipeline] = MULTI_PIPELINE
    /\ object.defaultPipeline = object.pipeline
    /\ ~object.pipelineData.defined

\* C32: defaultPipeline is changed by nothing but an initPipeline that
\* returns true, a setPipeline (hit or miss) in particular leaves it alone;
\* resetPipeline makes pipeline the defaultPipeline, that is the instance
\* the last successful initPipeline chose, and returns false exactly when
\* defaultPipeline is null, true otherwise.
C32_ResetRestoresDefault ==
    [][ /\ (call'.op # "initPipeline" \/ call'.ret = 0) =>
                object'.defaultPipeline = object.defaultPipeline
        /\ call'.op = "resetPipeline" =>
                /\ ~call'.threw
                /\ object'.pipeline = object.defaultPipeline
                /\ call'.ret = B(object.defaultPipeline # Null)
                /\ object'.pipelineData = object.pipelineData ]_vars

\* A resetPipeline that returned true and put back the default pipeline in
\* place of another one a setPipeline had chosen.
C32_Witness ==
    /\ call.op = "resetPipeline" /\ call.ret = 1
    /\ object.defaultPipeline # Null
    /\ object.pipeline = object.defaultPipeline
    /\ ~object.pipelineData.defined


\* C36: setPipeline never throws; with a name the pipeline set does not
\* hold (or without a pipeline set) the Game Object is as before; with a
\* name it holds pipeline is the instance of the name and pipelineData is
\* what was passed, undefined when nothing was passed.  A setPipelineData
\* called while pipelineData is undefined throws and stores nothing.
C36_SetPipelineData ==
    [][ /\ call'.op = "setPipeline" =>
                LET name == PipelineArgs[call'.args[1]]
                    hit == Holds(object, name)
                IN  /\ ~call'.threw
                    /\ ~hit => object' = object
                    /\ hit => /\ object.pipelines.names[object'.pipeline] = name
                              /\ object'.defaultPipeline = object.defaultPipeline
                              /\ object'.pipelineData = DataArgs[call'.args[2]]
                              /\ ((call'.args[2] = 1) => ~object'.pipelineData.defined)
        /\ (call'.op = "setPipelineData" /\ ~object.pipelineData.defined) =>
                /\ call'.threw
                /\ object' = object ]_vars

\* A setPipelineData that threw after a setPipeline without data had chosen
\* a pipeline.
C36_Witness ==
    /\ call.op = "setPipelineData" /\ call.threw
    /\ object.pipeline # Null
    /\ ~object.pipelineData.defined


\* The places in the log of the next call of the entries of one kind.
PlacesNext(ev) == {i \in 1..Len(call'.log) : call'.log[i].ev = ev}

\* C33: a batchQuad or batchTri that took the overflow path and returned
\* has, in this order, drawn the vertices that were pending (one draw call
\* of exactly their number), bound the texture once, and written its 6 or 3
\* vertices; every vertex it wrote carries the unit the texture bind
\* answered, whatever unit was passed, and the vertices it wrote are the
\* whole batch on return: none of them was in the draw call.
C33_OverflowOrder ==
    [][ (call'.op \in {"batchQuad", "batchTri"} /\ ~call'.threw /\ call'.ret = 1) =>
            LET log == call'.log
                draws == PlacesNext("drawArrays")
                binds == PlacesNext("setTexture2D")
                writes == PlacesNext("batchVert")
                amount == IF call'.op = "batchQuad" THEN 6 ELSE 3
                texture == IF call'.args[2] = Undefined THEN WhiteTexture ELSE call'.args[2]
            IN  /\ Cardinality(draws) = 1
                /\ Cardinality(binds) = 1
                /\ Cardinality(writes) = amount
                /\ \A d \in draws, b \in binds, v \in writes :
                       /\ d < b /\ b < v
                       /\ log[d].c = pipeline.vertexCount
                       /\ log[b].a = texture
                       /\ log[v].vals[5] = log[b].b
                       /\ log[v].a < amount
                /\ pipeline'.vertexCount = amount ]_vars

\* A batchQuad passed unit 1 that flushed three pending vertices, bound its
\* texture to unit 0 and wrote its six vertices with unit 0.
C33_Witness ==
    /\ call.op = "batchQuad" /\ ~call.threw /\ call.ret = 1
    /\ call.args[3] = 1
    /\ Len(Logged("drawArrays")) = 1
    /\ Len(Logged("setTexture2D")) = 1
    /\ Logged("setTexture2D")[1].b = 0
    /\ \A i \in 1..6 : Logged("batchVert")[i].vals[5] = 0
    /\ pipeline.vertexCount = 6


\* C34: a flush of a batch that is not empty, when it returns, has made
\* exactly these calls in this order: onBeforeFlush, one upload, the draw
\* call of the pending vertices, onAfterFlush.  onBeforeFlush ran with
\* vertexCount still the number pending, onAfterFlush with vertexCount 0,
\* and both were passed isPostFlush: true when true was passed, false when
\* false or nothing was passed.
C34_FlushStepOrder ==
    [][ (call'.op = "flush" /\ ~call'.threw /\ pipeline.vertexCount > 0) =>
            LET log == call'.log
                isPostFlush == IF call'.args[1] = 1 THEN 1 ELSE 0
            IN  /\ Len(log) = 4
                /\ log[1].ev = "onBeforeFlush"
                /\ log[1].a = isPostFlush
                /\ log[1].b = pipeline.vertexCount
                /\ log[2].ev \in {"bufferData", "bufferSubData"}
                /\ log[3].ev = "drawArrays"
                /\ log[3].c = pipeline.vertexCount
                /\ log[4].ev = "onAfterFlush"
                /\ log[4].a = isPostFlush
                /\ log[4].b = 0
                /\ pipeline'.vertexCount = 0 ]_vars

\* A flush called without an argument that drew the pending vertices and
\* passed false to both hooks.
C34_Witness ==
    /\ call.op = "flush" /\ ~call.threw
    /\ call.args[1] = Undefined
    /\ Len(call.log) = 4
    /\ call.log[1].ev = "onBeforeFlush" /\ call.log[1].a = 0 /\ call.log[1].b > 0
    /\ call.log[3].ev = "drawArrays" /\ call.log[3].c = call.log[1].b
    /\ call.log[4].ev = "onAfterFlush" /\ call.log[4].a = 0 /\ call.log[4].b = 0


\* The names a configuration gives its shaders, in order.
NamesOf(config) ==
    IF Len(config.shaders) = 0 THEN << "default" >>
    ELSE [i \in 1..Len(config.shaders) |-> config.shaders[i].name]

\* The pipeline has a shader list that is not empty, and its current shader
\* is one of the list that has not been destroyed.
OneCurrentShader(p, sh) ==
    /\ p.shaders # NullList
    /\ Len(p.shaders) > 0
    /\ \E i \in 1..Len(p.shaders) : p.shaders[i] = p.currentShader
    /\ \A i \in 1..Len(p.shaders) : ~sh[p.shaders[i]].destroyed

\* C35: in every state after boot the shader list is not empty and the
\* current shader is a member of it that has not been destroyed.  A
\* setShadersFromConfig (boot calls it with the pipeline's configuration)
\* that returns has destroyed every shader of the previous list, has built
\* new shaders, one named 'default' for a configuration that lists none and
\* else one per entry with the entry's name, in order, and has made the
\* first of them current.  A setShader that returns has made a member of
\* the list current.
C35_OneCurrentShader ==
    [][ /\ pipeline'.hasBooted => OneCurrentShader(pipeline', shaderObjs')
        /\ (call'.op \in {"boot", "setShadersFromConfig"} /\ ~call'.threw) =>
                LET made == pipeline'.shaders
                IN  /\ \A i \in 1..Len(pipeline.shaders) :
                           shaderObjs'[pipeline.shaders[i]].destroyed
                    /\ \A i \in 1..Len(made) : made[i] > Len(shaderObjs)
                    /\ \E config \in (IF call'.op = "boot" THEN {pipeline.config} ELSE Configs) :
                           /\ Len(made) = Len(NamesOf(config))
                           /\ \A i \in 1..Len(made) : shaderObjs'[made[i]].name = NamesOf(config)[i]
                    /\ pipeline'.currentShader = made[1]
        /\ (call'.op = "setShader" /\ ~call'.threw) =>
                /\ pipeline'.shaders = pipeline.shaders
                /\ pipeline'.currentShader = call'.args[1] ]_vars

\* A booted pipeline of two shaders whose second shader setShader made
\* current, after setShadersFromConfig had replaced the shaders boot built.
C35_Witness ==
    /\ pipeline.hasBooted
    /\ call.op = "setShader" /\ ~call.threw
    /\ Len(pipeline.shaders) = 2
    /\ pipeline.currentShader = pipeline.shaders[2]
    /\ \E i \in 1..Len(shaderObjs) : shaderObjs[i].destroyed
    /\ OneCurrentShader(pipeline, shaderObjs)


RECURSIVE FeedLog(_), DrawnIn(_)
\* The vertex writes and the draw calls of the calls of a history, in order.
FeedLog(h) ==
    IF h = << >> THEN << >>
    ELSE FeedLog(SubSeq(h, 1, Len(h) - 1))
             \o SelectSeq(h[Len(h)].log, LAMBDA e : e.ev \in {"batchVert", "drawArrays"})

\* The number of vertices the draw calls of a log have drawn.
DrawnIn(log) ==
    IF log = << >> THEN 0
    ELSE DrawnIn(SubSeq(log, 1, Len(log) - 1))
             + (IF log[Len(log)].ev = "drawArrays" THEN log[Len(log)].c ELSE 0)

\* The number of vertices a log has appended.
AppendedIn(log) == Len(SelectSeq(log, LAMBDA e : e.ev = "batchVert"))

\* C37: over a run of boot() followed by batchVert, batchQuad, batchTri,
\* drawFillRect and flush calls, the vertices appended so far are as many as
\* the draw calls so far have drawn plus vertexCount; every draw call
\* draws, from the first vertex of the buffer on, exactly the vertices
\* appended since the draw call before it, and every vertex is written at
\* the place after the vertices appended since the last draw call: each
\* vertex is drawn at most once, in the order of appending.
C37_VertexConservation ==
    LET log == FeedLog(history)
    IN  /\ AppendedIn(log) = DrawnIn(log) + pipeline.vertexCount
        /\ \A i \in 1..Len(log) :
               LET before == SubSeq(log, 1, i - 1)
                   pending == AppendedIn(before) - DrawnIn(before)
               IN  IF log[i].ev = "drawArrays"
                   THEN log[i].b = 0 /\ log[i].c = pending
                   ELSE log[i].a = pending

\* A run in which two draw calls were issued and vertices appended after
\* the second are pending.
C37_Witness ==
    /\ Len(EventsOf(history, "drawArrays")) = 2
    /\ pipeline.vertexCount > 0
    /\ AppendedIn(FeedLog(history)) > DrawnIn(FeedLog(history))
    /\ \E i \in 1..Len(history) : history[i].op = "drawFillRect" /\ ~history[i].threw


\* C38: whenever a call of the pipeline uploads vertex data and issues a
\* draw call (a flush, or the flush inside a batchQuad or batchTri), the
\* active vertex buffer of the device is the pipeline's own vertex buffer
\* and the current program of the device is the program of the pipeline's
\* current shader, whatever the other pipeline of the renderer did before.
C38_FlushOnOwnBuffer ==
    [][ Len(LoggedNext("drawArrays")) > 0 =>
            /\ renderer.currentVertexBuffer = pipeline.vertexBuffer
            /\ renderer.currentProgram = shaderObjs[pipeline.currentShader].program
            /\ \A i \in 1..Len(UploadsNext) : UploadsNext[i].c = pipeline.vertexBuffer ]_vars


\* C39: on a booted pipeline whose vertexCapacity is greater than 6 and that
\* is fed through batchQuad, batchTri and drawFillRect alone, vertexCount is
\* less than vertexCapacity after every call, and no flush, called directly
\* or by one of the three, uploads the whole buffer with bufferData.
C39_NeverFull ==
    [][ (pipeline'.hasBooted /\ pipeline'.vertexCapacity > 6) =>
            /\ pipeline'.vertexCount < pipeline'.vertexCapacity
            /\ pipeline'.vertexCount <= pipeline'.vertexCapacity - 1
            /\ call'.op # "boot" => Len(LoggedNext("bufferData")) = 0 ]_vars

\* A batchQuad whose six vertices would have filled the batch exactly: it
\* flushed the pending vertices with a partial upload and returned with six
\* vertices pending.
C39_Witness ==
    /\ pipeline.hasBooted /\ pipeline.vertexCapacity > 6
    /\ call.op = "batchQuad" /\ ~call.threw /\ call.ret = 1
    /\ Len(Logged("bufferSubData")) = 1
    /\ Len(Logged("drawArrays")) = 1
    /\ Logged("drawArrays")[1].c + 6 = pipeline.vertexCapacity
    /\ pipeline.vertexCount = 6

\* C40: a postFlush that returns, called with k > 0 vertices pending and
\* k + 6 < vertexCapacity: the default framebuffer is made the one drawn
\* into first and no other framebuffer is set afterwards; nothing is drawn
\* before the six vertices of the target's quad are written; there is one
\* draw call, of k + 6 vertices from the first, uploaded by bufferSubData,
\* issued while the default framebuffer is the one drawn into; on return
\* the batch is empty.
C40_PendingDrawnWithQuad ==
    [][ (/\ call'.op = "postFlush" /\ ~call'.threw
         /\ pipeline.vertexCount > 0
         /\ pipeline.vertexCount + 6 < pipeline.vertexCapacity) =>
            LET log == call'.log
                k == pipeline.vertexCount
                draws == LoggedNext("drawArrays")
                draw == FirstOf(log, "drawArrays")
                lastVert == CHOOSE i \in 1..Len(log) :
                                /\ log[i].ev = "batchVert"
                                /\ \A j \in (i + 1)..Len(log) : log[j].ev # "batchVert"
            IN  /\ log[1].ev = "setFramebuffer" /\ log[1].a = Null
                /\ Len(LoggedNext("setFramebuffer")) = 1
                /\ Len(LoggedNext("batchVert")) = 6
                /\ Len(draws) = 1
                /\ draws[1].b = 0 /\ draws[1].c = k + 6
                /\ lastVert < draw
                /\ Len(LoggedNext("bufferSubData")) = 1
                /\ Len(LoggedNext("bufferData")) = 0
                /\ renderer'.currentFramebuffer = Null
                /\ pipeline'.vertexCount = 0 ]_vars

\* A postFlush with five vertices pending in a batch of fourteen: one draw
\* call of eleven vertices, the default framebuffer the one drawn into.
C40_Witness ==
    /\ call.op = "postFlush" /\ ~call.threw
    /\ pipeline.vertexCapacity = 14
    /\ Len(Logged("setFramebuffer")) = 1
    /\ Len(Logged("drawArrays")) = 1
    /\ Logged("drawArrays")[1].c = 11
    /\ renderer.currentFramebuffer = Null
    /\ pipeline.vertexCount = 0


====
